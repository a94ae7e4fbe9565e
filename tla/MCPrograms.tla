----------------------------- MODULE MCPrograms -----------------------------
(* The small programs and the helpers of the pipe, its fences included: one *)
(* of them in each behaviour. *)
EXTENDS ShmPrograms, ProcTools, Support, PipeFences

VARIABLE subject  \* what this behaviour runs

mcVars == <<subject, shmVars, toolVars, supportVars, vars>>

First(S) == CHOOSE x \in S : TRUE

\* What does not run starts in one of its initial states only.
MCInit ==
  /\ subject \in {"shm", "tool", "bits", "message", "fences"}
  /\ ShmInit /\ ToolInit /\ SupportInit /\ Init
  /\ subject # "shm" => shmProgram = [p \in Processes |-> First(ShmSet)]
  /\ subject # "tool" => tool = First(Tools) /\ map = First(LinkMaps)
  /\ subject # "fences" => platform = First(Platforms)

MCNext ==
  /\ UNCHANGED subject
  /\ \/ subject = "shm"     /\ ShmNext     /\ UNCHANGED <<toolVars, supportVars, vars>>
     \/ subject = "tool"    /\ ToolNext    /\ UNCHANGED <<shmVars, supportVars, vars>>
     \/ subject = "bits"    /\ BitNext     /\ UNCHANGED <<shmVars, toolVars, vars>>
     \/ subject = "message" /\ MessageNext /\ UNCHANGED <<shmVars, toolVars, vars>>
     \/ subject = "fences"  /\ Next        /\ UNCHANGED <<shmVars, toolVars, supportVars>>

MCSpec == MCInit /\ [][MCNext]_mcVars

\* Objects without, with some and with only named symbols; one or two that
\* gordon looks for, or none.
MCObjects ==
  {[name |-> n, symbols |-> s] : n \in {"match", "other", "NULL"},
                                 s \in {<<>>, <<TRUE, FALSE>>, <<FALSE, TRUE, TRUE>>}}

MCLinkMaps == {<<>>} \cup (MCObjects \X MCObjects \X MCObjects)

MCTexts == {<<>>, <<7>>, <<8, 9, 10>>}
=============================================================================
