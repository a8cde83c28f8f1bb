------------------------------- MODULE MCTeamCopy -------------------------------
(* TeamCopy on a small instance. *)
EXTENDS TeamCopy

MCTables ==
    {"pipelines", "stages", "menus", "contacts", "tasks", "activities", "messages", "emails"}

\* activities.activitable_id refers to contacts here and to tasks.
MCRefTables == [t \in MCTables |-> CASE t = "stages"     -> {"pipelines"}
                                     [] t = "menus"      -> {"menus"}
                                     [] t = "tasks"      -> {"contacts"}
                                     [] t = "activities" -> {"contacts", "tasks"}
                                     [] OTHER            -> {}]

\* 'activitables' is no table; emails.message_id, an identifier of the mail server, is
\* taken to refer to messages.
MCGuessed == [t \in MCTables |-> CASE t = "stages" -> "pipelines"
                                   [] t = "menus"  -> "menus"
                                   [] t = "tasks"  -> "contacts"
                                   [] t = "emails" -> "messages"
                                   [] OTHER        -> None]

Row(table, id, team, to, ref, user) ==
    [table |-> table, id |-> id, team |-> team, to |-> to, ref |-> ref, user |-> user]

MCFirstFree == [t \in MCTables |-> IF t = "stages" THEN 2 ELSE 3]

\* The second database has a stage without its pipeline, as a restore may leave one.
MCDatabases ==
    {{Row("pipelines", 2, 1, None, None, None), Row("stages", 1, 1, "pipelines", 2, None),
      Row("menus", 1, 1, "menus", 2, None), Row("menus", 2, 1, None, None, None),
      Row("contacts", 1, 2, None, None, None), Row("contacts", 2, 2, None, None, None)},
     {Row("stages", 1, 1, "pipelines", 1, None), Row("menus", 1, 1, None, None, None)}}

\* A whole backup; one with an activity on a contact and a task that outlived its contact,
\* both ids strangers' here; one with no contacts left; mails and messages.
MCArchives ==
    {{Row("pipelines", 1, 1, None, None, None), Row("stages", 2, 1, "pipelines", 1, None),
      Row("contacts", 2, 1, None, None, None), Row("tasks", 1, 1, "contacts", 2, Stranger)},
     {Row("contacts", 1, 1, None, None, None), Row("tasks", 2, 1, "contacts", 2, Stranger),
      Row("activities", 1, 1, "contacts", 1, None)},
     {Row("tasks", 2, 1, "contacts", 1, None)},
     {Row("messages", 1, 1, None, None, None), Row("emails", 2, 1, None, 1, None),
      Row("emails", 1, 1, None, 2, None)}}
===============================================================================
