--------------------------- MODULE MCToolApprovals ---------------------------
(* Instances of ToolApprovals for TLC. *)
EXTENDS ToolApprovals

MCClass == [peek |-> "peek", edit |-> "edit", danger |-> "barred"]

Plain == [deny |-> {}, ask |-> {}, allow |-> {}, fallback |-> "ask", scoped |-> FALSE,
          frontend |-> "serve", unattended |-> "deny", limit |-> 0]
Scoped == [Plain EXCEPT !.ask = {"peek"}, !.allow = {"edit"}, !.scoped = TRUE]
Strict == [Plain EXCEPT !.deny = {"edit"}, !.allow = {"edit"}, !.ask = {"peek"}, !.fallback = "deny"]
MCSettings ==
    {Plain, [Strict EXCEPT !.limit = 2], [Scoped EXCEPT !.frontend = "tui"]}
    \cup {[Scoped EXCEPT !.frontend = "none", !.unattended = u] : u \in {"allow", "deny"}}
MCTerminal == {[Plain EXCEPT !.frontend = "tui"]}
=============================================================================
