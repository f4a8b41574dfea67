----------------------------- MODULE MCWorkspace -----------------------------
EXTENDS KpWorkspace, TLC

\* ~/.kickpass with a sub-workspace a, which a user may also take for a safe's name
MCPaths == {"", ".config", "x", "a", "a/.config", "a/x"}
MCConfig == "" :> ".config" @@ "a" :> "a/.config"
MCParent == [n \in MCPaths \ {""} |-> IF n \in {"a/.config", "a/x"} THEN "a" ELSE ""]

Line(c, n) == [cmd |-> c, path |-> n, to |-> n]

\* All of them ordinary (OrdinaryJobs)
MCJobs == {Line("init", ""), Line("init", "a"),
           Line("create", "x"), Line("create", "a/x"),
           Line("edit", "a/x"), Line("edit", "a/.config"),
           Line("delete", "a"), Line("list", ""),
           [cmd |-> "rename", path |-> "x", to |-> "a"]}

ASSUME MCOrdinary == OrdinaryJobs
=============================================================================
