----------------------------- MODULE MCSocialPosts -----------------------------
(* SocialPosts on a small instance. *)
EXTENDS SocialPosts

Arrays == {<<"youtube", "facebook">>, <<"youtube">>}

\* Without the SDK of Facebook, as the repository is, and with it.
MCSetups == {<<"preferred", {}>>, <<"zernio", {}>>, <<"fallback", {"facebook"}>>}
===============================================================================
