---------------------------- MODULE ShmPrograms ----------------------------
(***************************************************************************)
(* The shared memory experiments of shmadv: shm_copy.c, test1.c, test2.c.  *)
(* Several processes, each running one of them, run at the same time or    *)
(* one after the other.  shmget takes an existing segment of its key       *)
(* (IPC_CREAT without IPC_EXCL), shm_copy and test2 use the same key for   *)
(* segments of different sizes, and one process may remove what the other  *)
(* is about to use.                                                        *)
(*                                                                         *)
(* Ids are indices of segments.  IPC_RMID makes an id and its key invalid  *)
(* at once; the memory lasts until the last process detaches.              *)
(***************************************************************************)
EXTENDS Integers, Sequences

CONSTANTS
  ShmSet,     \* the programs that are run
  Processes,  \* the processes that run one of them
  Blocks      \* struct_count: blocks of 512 bytes in a segment of shm_copy

ASSUME ShmAssumption ==
  /\ ShmSet \subseteq {"shm_copy", "test1", "test2"}
  /\ Blocks \in Nat \ {0}

VARIABLES
  shmProgram,  \* each process: the program it runs
  step,        \* each process: index of its next call in the program
  ids,         \* each process: the ids shmget returned, by key; 0 for none
  attached,    \* each process: ids it is attached to
  row,         \* each process: row of memsets or memcpys
  code,        \* each process: -1 while it runs, then its exit code, 139 if killed
  failedKey,   \* ghost, each process: key of the call it stopped at
  segments     \* the segments created so far

procs   == <<step, ids, attached, row, code, failedKey>>
shmVars == <<shmProgram, procs, segments>>

\* SHKEY_SRC, and SHKEY of test2; SHKEY_DST; SHKEY of test1.
Keys == {"0x6fff", "0x8111", "0x600f"}

\* The calls of each main, in order.
ShmCopy ==
  << <<"shmget", "0x6fff">>, <<"shmget", "0x8111">>,
     <<"shmadv", "0x6fff">>, <<"shmadv", "0x8111">>,
     <<"shmat", "0x6fff">>, <<"shmat", "0x8111">>,
     <<"memset", "0x6fff">>, <<"memcpy", "0x8111">>,
     <<"shmdt", "0x6fff">>, <<"shmdt", "0x8111">>,
     <<"rmid", "0x6fff">>, <<"rmid", "0x8111">> >>

Test1 ==
  << <<"shmget", "0x600f">>, <<"shmat", "0x600f">>, <<"touch", "0x600f">>,
     <<"shmdt", "0x600f">>, <<"rmid", "0x600f">> >>

Test2 ==
  << <<"shmget", "0x6fff">>, <<"shmadv", "0x6fff">>, <<"shmat", "0x6fff">>,
     <<"shmdt", "0x6fff">>, <<"rmid", "0x6fff">> >>

Script(p) == CASE shmProgram[p] = "shm_copy" -> ShmCopy
               [] shmProgram[p] = "test1" -> Test1
               [] shmProgram[p] = "test2" -> Test2

\* SHM_SIZE: 64 MB, 63 MB and 6 GB.
SHM_SIZE(p) == IF shmProgram[p] = "test2" THEN 96 * Blocks ELSE Blocks

\* The first column of the tables, in blocks of 512 bytes, rounded up.
memsets == <<1, 1, 1, 1, 1, 2, 4, 8>>
memcpys == <<1, 1, 1, 1, 1, 1, 1, 1, 1, 2>>

ShmInit ==
  /\ shmProgram \in [Processes -> ShmSet]
  /\ step = [p \in Processes |-> 1]
  /\ ids = [p \in Processes |-> [k \in Keys |-> 0]]
  /\ attached = [p \in Processes |-> {}]
  /\ row = [p \in Processes |-> 1]
  /\ code = [p \in Processes |-> -1]
  /\ failedKey = [p \in Processes |-> "none"]
  /\ segments = <<>>

At(p, call, k) ==
  code[p] = -1 /\ step[p] <= Len(Script(p)) /\ Script(p)[step[p]] = <<call, k>>

Go(p) == step' = [step EXCEPT ![p] = @ + 1]

\* The process ends; the kernel detaches it.
Exit(p, c, k) ==
  /\ code' = [code EXCEPT ![p] = c]
  /\ failedKey' = [failedKey EXCEPT ![p] = k]
  /\ attached' = [attached EXCEPT ![p] = {}]

Valid(id)   == id \in DOMAIN segments /\ segments[id].valid
Current(k)  == {id \in DOMAIN segments : Valid(id) /\ segments[id].key = k}
Destroy(id) == segments' = [segments EXCEPT ![id].valid = FALSE]

-----------------------------------------------------------------------------
\* The segment of this key, if it is large enough; a new one if there is none.
Shmget(p, k) ==
  /\ At(p, "shmget", k)
  /\ \/ \E id \in Current(k) :
          /\ segments[id].blocks >= SHM_SIZE(p)
          /\ ids' = [ids EXCEPT ![p][k] = id]
          /\ UNCHANGED segments
     \/ /\ Current(k) = {}
        /\ segments' = Append(segments, [key |-> k, blocks |-> SHM_SIZE(p), valid |-> TRUE])
        /\ ids' = [ids EXCEPT ![p][k] = Len(segments')]
  /\ Go(p)
  /\ UNCHANGED <<shmProgram, attached, row, code, failedKey>>

\* Too small, or any other error: exit(1), whatever was created before.
ShmgetFails(p, k) ==
  /\ At(p, "shmget", k)
  /\ Exit(p, 1, k)
  /\ UNCHANGED <<shmProgram, step, ids, row, segments>>

Shmadv(p, k) ==
  /\ At(p, "shmadv", k)
  /\ Valid(ids[p][k])
  /\ Go(p)
  /\ UNCHANGED <<shmProgram, ids, attached, row, code, failedKey, segments>>

\* Mutant: a failing shmadv always destroys the first segment.
ShmadvFailsFirst(p, k) ==
  /\ At(p, "shmadv", k)
  /\ Destroy(ids[p]["0x6fff"])
  /\ Exit(p, 3, k)
  /\ UNCHANGED <<shmProgram, step, ids, row>>

\* Any error, or another process removed the segment: "Destroy segment", the
\* one of this call only.
ShmadvFails(p, k) ==
  /\ At(p, "shmadv", k)
  /\ Destroy(ids[p][k])
  /\ Exit(p, 3, k)
  /\ UNCHANGED <<shmProgram, step, ids, row>>

Shmat(p, k) ==
  /\ At(p, "shmat", k)
  /\ Valid(ids[p][k])
  /\ attached' = [attached EXCEPT ![p] = @ \cup {ids[p][k]}]
  /\ Go(p)
  /\ UNCHANGED <<shmProgram, ids, row, code, failedKey, segments>>

\* As for shmadv; test1 does not destroy its segment.
ShmatFails(p, k) ==
  /\ At(p, "shmat", k)
  /\ IF shmProgram[p] = "test1" THEN UNCHANGED segments ELSE Destroy(ids[p][k])
  /\ Exit(p, 2, k)
  /\ UNCHANGED <<shmProgram, step, ids, row>>

\* The accesses of one row of memsets or memcpys, each at a random block.
Sizes(call) == IF call = "memset" THEN memsets ELSE memcpys

AccessRow(p, call, k) ==
  /\ At(p, call, k)
  /\ IF row[p] < Len(Sizes(call))
     THEN row' = [row EXCEPT ![p] = @ + 1] /\ UNCHANGED step
     ELSE row' = [row EXCEPT ![p] = 1] /\ Go(p)
  /\ UNCHANGED <<shmProgram, ids, attached, code, failedKey, segments>>

\* An access that starts in the last blocks goes past the end of the segment:
\* if nothing is mapped there the process is killed.
AccessKilled(p, call, k) ==
  /\ At(p, call, k)
  /\ \E block \in 0 .. (Blocks - 1) :
       block + Sizes(call)[row[p]] > segments[ids[p][k]].blocks
  /\ Exit(p, 139, k)
  /\ UNCHANGED <<shmProgram, step, ids, row, segments>>

\* test1's loop of memcpy stays inside.
Touch(p, k) ==
  /\ At(p, "touch", k)
  /\ Go(p)
  /\ UNCHANGED <<shmProgram, ids, attached, row, code, failedKey, segments>>

\* shmdt: an error is only reported.
Shmdt(p, k) ==
  /\ At(p, "shmdt", k)
  /\ attached' \in {attached, [attached EXCEPT ![p] = @ \ {ids[p][k]}]}
  /\ Go(p)
  /\ UNCHANGED <<shmProgram, ids, row, code, failedKey, segments>>

\* shmctl(IPC_RMID): an error, of an id already removed, is not looked at.
Rmid(p, k) ==
  /\ At(p, "rmid", k)
  /\ Destroy(ids[p][k])
  /\ Go(p)
  /\ UNCHANGED <<shmProgram, ids, attached, row, code, failedKey>>

Exit0(p) ==
  /\ code[p] = -1 /\ step[p] > Len(Script(p))
  /\ Exit(p, 0, "none")
  /\ UNCHANGED <<shmProgram, step, ids, row, segments>>

ShmNext ==
  \E p \in Processes :
    \/ Exit0(p)
    \/ \E k \in Keys :
         \/ Shmget(p, k) \/ ShmgetFails(p, k) \/ Shmadv(p, k) \/ ShmadvFails(p, k)
         \/ Shmat(p, k) \/ ShmatFails(p, k) \/ Touch(p, k) \/ Shmdt(p, k) \/ Rmid(p, k)
         \/ \E call \in {"memset", "memcpy"} : AccessRow(p, call, k) \/ AccessKilled(p, call, k)

ShmSpec == ShmInit /\ [][ShmNext]_shmVars

-----------------------------------------------------------------------------
\* Process p left segment id behind: it had it, did not end with exit(0), and
\* was not stopped by a call on this segment that destroys it.
LeftBy(p, id) ==
  LET k == segments[id].key
  IN  /\ ids[p][k] = id
      /\ code[p] # 0
      /\ ~(code[p] \in {2, 3} /\ failedKey[p] = k /\ shmProgram[p] # "test1")

\* "Destroy segment(s)".  A segment that is there when no process runs any
\* more was left by a process that failed, in a call on another segment or in
\* one that destroys nothing; processes that all exit with 0 leave nothing,
\* although each may have removed what another was about to use.
LeftoverExplained ==
  (\A p \in Processes : code[p] # -1) =>
    \A id \in DOMAIN segments : Valid(id) => \E p \in Processes : LeftBy(p, id)
=============================================================================
