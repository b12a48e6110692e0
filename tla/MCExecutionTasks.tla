--------------------------- MODULE MCExecutionTasks ---------------------------
(* ExecutionTasks with commands that get each verdict, and whose verdict changes in a retry. *)
EXTENDS ExecutionTasks

Line(form, segments, agent) ==
    [form |-> form, segments |-> segments, marks |-> {}, agent |-> agent, sound |-> TRUE]

Seg(program, sub) == [program |-> program, sub |-> sub]

\* An installation has to be approved.  A utility may run from the shell line of a supervised agent
\* once it is approved, and is outside its profile when its record is retried.  A package script is
\* refused when its text is dangerous.  A compound line is put up for approval and then refused.
\* A program on no list is allowed by the catalogue only.
MCCommands ==
    {Line("shell", <<Seg("manager", "install")>>, "qa_agent"),
     Line("shell", <<Seg("utility", "none")>>, "curator_agent"),
     Line("direct", <<Seg("manager", "script")>>, "front_agent"),
     Line("shell", <<Seg("utility", "none"), Seg("other", "none")>>, "qa_agent"),
     Line("direct", <<Seg("other", "none")>>, "unknown")}

=============================================================================
