------------------------------ MODULE MCDialogs ------------------------------
EXTENDS KpDialogs

\* create always opens the editor, copy neither prompts for a secret nor opens it
MCJobs ==
  {j \in Job : /\ j.cmd = "create" => j.metadata
               /\ j.cmd = "edit" => j.password \/ j.metadata
               /\ j.cmd = "copy" => ~j.password /\ ~j.metadata}
=============================================================================
