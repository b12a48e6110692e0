-------------------------- MODULE CommandPermission --------------------------
(***************************************************************************)
(* CommandPermissionEngine: whether a command may run, has to be approved, *)
(* or is refused.  A command is the text of a shell line, cut into simple  *)
(* commands, or one executable with its arguments.  Executables stand for  *)
(* the list they are on, arguments for the sub-command they name.          *)
(***************************************************************************)
EXTENDS Naturals, Sequences

Programs == {"utility", "manager", "git", "node", "denied", "other"}

\* What a simple command asks of its program; "destroy" is rm -rf /, git reset --hard, push --force.
\* "script" is a script of package.json, by its name, with run, or as test and start.
Subcommands == {"none", "script", "list", "install", "publish", "config", "status", "commit", "destroy"}

Segment == [program : Programs, sub : Subcommands]

\* What else the text contains.
Marks == {"assignment", "substitution", "redirection", "background"}

Agents == {"qa_agent", "front_agent", "curator_agent", "spec_agent", "unknown"}

\* sound: no NUL byte, an id, a directory inside the root, a timeout within the limits.
Command ==
    [form : {"shell", "direct"}, segments : Seq(Segment),
     marks : SUBSET Marks, agent : Agents, sound : BOOLEAN]

-----------------------------------------------------------------------------
(* Profiles *)

\* horus_chat_executor and coding_runtime have the profile of qa_agent, horus_chat that of
\* curator_agent, odin_agent that of spec_agent; an agent without a profile is not restricted.
Profile ==
    [qa_agent      |-> [shell |-> TRUE,  programs |-> {"node"}, subs |-> {"script", "list", "install"},
                        asks |-> FALSE],
     front_agent   |-> [shell |-> TRUE,  programs |-> {"node"}, subs |-> {"script", "list"},
                        asks |-> FALSE],
     curator_agent |-> [shell |-> TRUE,  programs |-> {"node"}, subs |-> {"script", "list"},
                        asks |-> TRUE],
     spec_agent    |-> [shell |-> FALSE, programs |-> {}, subs |-> {}, asks |-> TRUE]]

Profiled(agent) == agent \in DOMAIN Profile

\* git and the package managers are judged by their sub-command.
OutsideProfile(agent, s) ==
    CASE s.program = "git"     -> s.sub # "status"
      [] s.program = "manager" -> s.sub \notin Profile[agent].subs
      [] OTHER                 -> s.program \notin Profile[agent].programs

\* The profile, applied to a single executable.
DirectProfile(agent, s, approved) ==
    IF ~Profiled(agent) THEN "allow"
    ELSE IF OutsideProfile(agent, s) THEN "deny"
    ELSE IF Profile[agent].asks /\ ~approved THEN "ask" ELSE "allow"

\* In a shell line utilities are free, and a program on no list may be approved.
SegmentProfile(agent, s, approved) ==
    CASE s.program = "utility"            -> "allow"
      [] s.program \in {"manager", "git"} -> IF OutsideProfile(agent, s) THEN "deny" ELSE "allow"
      [] OTHER -> IF ~OutsideProfile(agent, s) \/ approved THEN "allow" ELSE "ask"

\* The first simple command that is not allowed decides.
ShellProfile(agent, segments, approved) ==
    LET Stops == {i \in 1..Len(segments) : SegmentProfile(agent, segments[i], approved) # "allow"}
    IN  IF ~Profiled(agent) THEN "allow"
        ELSE IF ~Profile[agent].shell THEN "deny"
        ELSE IF Stops # {}
        THEN SegmentProfile(agent, segments[CHOOSE i \in Stops : \A j \in Stops : i <= j], approved)
        ELSE IF Profile[agent].asks /\ ~approved THEN "ask" ELSE "allow"

-----------------------------------------------------------------------------
(* Rules for every agent *)

DeniedOrDangerous(s) == s.program = "denied" \/ s.sub = "destroy"

NeedsApproval(s) ==
    \/ s.program = "manager" /\ s.sub \in {"install", "publish"}
    \/ s.program = "git" /\ s.sub = "commit"

\* allowed: the executables the policy was made with.
StaticDenial(allowed, c) ==
    \/ ~c.sound
    \/ c.segments = <<>>
    \/ \E i \in 1..Len(c.segments) : DeniedOrDangerous(c.segments[i])
    \/ c.form = "shell" /\ "background" \in c.marks
    \/ c.form = "direct" /\ ("substitution" \in c.marks \/ c.segments[1].program \notin allowed)

\* After its profile was asked, a shell line must be one simple command that the lists allow.
NotSimple(allowed, c) ==
    \/ c.marks # {} \/ Len(c.segments) # 1
    \/ c.segments[1].program \notin allowed \cup {"utility"}

\* The text of a package script is looked at when the command is judged.
ScriptDenial(s, dangerous) == s.program = "manager" /\ s.sub = "script" /\ dangerous

\* A shell line is judged in this order: static rules, profile, shape and allow list, script, approval.
Evaluate(allowed, c, approved, dangerous) ==
    LET s == c.segments[1]
        profile == IF c.form = "shell" THEN ShellProfile(c.agent, c.segments, approved)
                   ELSE DirectProfile(c.agent, s, approved)
    IN  IF StaticDenial(allowed, c) THEN "deny"
        ELSE IF profile # "allow" THEN profile
        ELSE IF c.form = "shell" /\ NotSimple(allowed, c) THEN "deny"
        ELSE IF ScriptDenial(s, dangerous) THEN "deny"
        ELSE IF NeedsApproval(s) /\ ~approved THEN "ask" ELSE "allow"

\* What the record of a spawned command keeps of it: the executable and its arguments.
Normalized(c) == [c EXCEPT !.form = "direct"]

DefaultAllowed == {"node", "manager", "utility"}

\* Commands of the catalogue and of a validation plan may use their own executable.
CatalogueAllowed(c) == {"node", "manager"} \cup {c.segments[i].program : i \in 1..Len(c.segments)}

=============================================================================
