------------------------------ MODULE MCTeamBackup ------------------------------
EXTENDS TeamBackup, TLC

Symmetric == Permutations(Workers)
===============================================================================
