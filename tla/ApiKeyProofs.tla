--------------------------- MODULE ApiKeyProofs ---------------------------
(***************************************************************************)
(* Proofs about ApiKey, for any number of processes, calls and containers. *)
(* The argument: without a setting the file is written once, by the one    *)
(* process that created it; with a setting every content it can have once  *)
(* a call has reached the file is the setting or nothing.                  *)
(***************************************************************************)
EXTENDS ApiKey, TLAPS

\* Which steps of key() a container's processes can be at, and what the file
\* then is.
StepInv ==
  /\ setting = Unset => \A p \in Processes : pc[p] \notin {"truncate", "store"}
  /\ setting # Unset => \A p \in Processes : pc[p] \notin {"exists", "create", "generate"}
  /\ \A p \in Processes : pc[p] \in {"store", "generate", "read", "done"} => file # Absent
  /\ \A p \in Processes : pc[p] = "generate" => file = Empty
  /\ \A p, q \in Processes : pc[p] = "generate" /\ pc[q] = "generate" => p = q

\* The content a key that was read can have.
Current == IF setting = Unset THEN file ELSE setting

\* Every key that was read, and the server's, is the current one or none.
CurrentInv ==
  /\ setting # Unset =>
       \A p \in Processes : pc[p] \in {"store", "read", "done"} => file \in {setting, Empty}
  /\ \A p \in Processes : pc[p] = "done" => got[p] \in {Current, Empty}
  /\ server \in {Unset, Current, Empty}

KInv == TypeOK /\ StepInv /\ CurrentInv

\* What the proofs need of the constants.
LEMMA ApiKeyConstants ==
  /\ Launcher \in Processes /\ Checks \subseteq Processes
  /\ Unset \notin Settings /\ Unset # Empty /\ Absent # Empty /\ Absent \notin Keys
  /\ Settings \subseteq Keys /\ 1 \in 1..MaxRuns
  /\ \A p \in Processes, run \in 1..MaxRuns : [by |-> p, run |-> run] \in Keys
  BY KeysAssumption, BoundsAssumption DEF Processes, Keys, Generated

\* The invariant holds when the first container starts.
LEMMA KInit == Init => KInv
  BY ApiKeyConstants, BoundsAssumption DEF Init, KInv, TypeOK, Steps, StepInv, CurrentInv, Current

\* One process's step of key() that leaves the file alone.
LEMMA LookingKeeps ==
  ASSUME KInv, NEW p \in Processes,
         Enter(p) \/ Exists(p) \/ CreateFails(p) \/ Request(p)
  PROVE  KInv'
<1> USE ApiKeyConstants
<1>1. /\ UNCHANGED <<setting, file, got, server, runs>>
      /\ calls' \in 0..MaxCalls
      /\ \A q \in Processes \ {p} : pc'[q] = pc[q]
      /\ pc' = [pc EXCEPT ![p] = pc'[p]]
  BY BoundsAssumption DEF Enter, Exists, CreateFails, Request, Goto, KInv, TypeOK
<1>2. /\ pc'[p] \in {"truncate", "exists", "create", "read", "failed", "idle"}
      /\ pc'[p] = "truncate" => setting # Unset
      /\ pc'[p] \in {"exists", "create", "read"} => setting = Unset
      /\ pc'[p] = "read" => file # Absent
  BY DEF Enter, Exists, CreateFails, Request, Goto, KInv, TypeOK, StepInv
<1>3. TypeOK'
  BY <1>1, <1>2 DEF KInv, TypeOK, Steps
<1>4. StepInv'
  BY <1>1, <1>2 DEF KInv, StepInv
<1>5. CurrentInv'
  BY <1>1, <1>2 DEF KInv, CurrentInv, Current
<1>6. QED
  BY <1>3, <1>4, <1>5 DEF KInv

\* Rewriting the file with the setting.
LEMMA SettingKeeps ==
  ASSUME KInv, NEW p \in Processes, Truncate(p) \/ Store(p)
  PROVE  KInv'
<1> USE ApiKeyConstants
<1>1. /\ UNCHANGED <<setting, got, server, runs, calls>>
      /\ \A q \in Processes \ {p} : pc'[q] = pc[q]
      /\ pc' = [pc EXCEPT ![p] = pc'[p]]
      /\ pc'[p] \in {"store", "read"}
  BY DEF Truncate, Store, Goto, KInv, TypeOK
<1>2. setting # Unset /\ setting \in Settings /\ file' \in {setting, Empty}
  BY DEF Truncate, Store, Goto, KInv, TypeOK, StepInv
<1>3. TypeOK'
  BY <1>1, <1>2 DEF KInv, TypeOK, Steps
<1>4. StepInv'
  BY <1>1, <1>2 DEF KInv, StepInv
<1>5. CurrentInv'
  BY <1>1, <1>2 DEF KInv, CurrentInv, Current
<1>6. QED
  BY <1>3, <1>4, <1>5 DEF KInv

\* Creating the file and writing a generated key to it: only the process
\* that created it writes, and until then nobody has read a key.
LEMMA GenerateKeeps ==
  ASSUME KInv, NEW p \in Processes, Create(p) \/ Generate(p)
  PROVE  KInv'
<1> USE ApiKeyConstants
<1>1. /\ UNCHANGED <<setting, got, server, runs, calls>>
      /\ \A q \in Processes \ {p} : pc'[q] = pc[q]
      /\ pc' = [pc EXCEPT ![p] = pc'[p]]
      /\ pc'[p] \in {"generate", "read"}
      /\ setting = Unset
  BY DEF Create, Generate, Goto, KInv, TypeOK, StepInv
<1>2. /\ file \in {Absent, Empty} /\ file' \in Keys \cup {Empty}
      /\ pc'[p] = "generate" => file = Absent /\ file' = Empty
      /\ pc'[p] = "read" => pc[p] = "generate"
  BY DEF Create, Generate, Goto, KInv, TypeOK, StepInv
<1>3. TypeOK'
  BY <1>1, <1>2 DEF KInv, TypeOK, Steps
<1>4. StepInv'
  BY <1>1, <1>2 DEF KInv, StepInv
<1>5. CurrentInv'
  BY <1>1, <1>2 DEF KInv, TypeOK, StepInv, CurrentInv, Current
<1>6. QED
  BY <1>3, <1>4, <1>5 DEF KInv

\* Reading the file.
LEMMA ReadKeeps ==
  ASSUME KInv, NEW p \in Processes, Read(p)
  PROVE  KInv'
<1> USE ApiKeyConstants
<1>1. /\ UNCHANGED <<setting, file, server, runs, calls>>
      /\ pc[p] = "read" /\ pc' = [pc EXCEPT ![p] = "done"] /\ got' = [got EXCEPT ![p] = file]
  BY DEF Read, Goto
<1>2. TypeOK'
  BY <1>1 DEF KInv, TypeOK, StepInv, Steps
<1>3. StepInv'
  BY <1>1 DEF KInv, TypeOK, StepInv
<1>4. CurrentInv'
  BY <1>1 DEF KInv, TypeOK, CurrentInv, Current
<1>5. QED
  BY <1>2, <1>3, <1>4 DEF KInv

\* The server's start, and a process that is killed.
LEMMA ServeKillKeeps ==
  ASSUME KInv, Serve \/ \E p \in Checks : Kill(p)
  PROVE  KInv'
<1> USE ApiKeyConstants
<1>1. PICK p \in Processes : /\ pc' = [pc EXCEPT ![p] = "idle"]
                             /\ UNCHANGED <<setting, file, got, runs, calls>>
  BY DEF Serve, Kill
<1>2. server' = server \/ (pc[Launcher] = "done" /\ server' = got[Launcher])
  <2>1. ASSUME NEW r \in Checks, Kill(r) PROVE server' = server
    BY <2>1 DEF Kill
  <2>2. QED
    BY <2>1 DEF Serve
<1>3. TypeOK'
  BY <1>1, <1>2 DEF KInv, TypeOK, Steps
<1>4. StepInv'
  BY <1>1 DEF KInv, TypeOK, StepInv
<1>5. CurrentInv'
  BY <1>1, <1>2 DEF KInv, TypeOK, CurrentInv, Current
<1>6. QED
  BY <1>3, <1>4, <1>5 DEF KInv

\* Another container, with another setting, on the same file.
LEMMA ContainerKeeps ==
  ASSUME KInv, Restart
  PROVE  KInv'
<1>1. runs' \in 1..MaxRuns
  BY BoundsAssumption DEF Restart, KInv, TypeOK
<1>2. TypeOK'
  BY <1>1 DEF Restart, KInv, TypeOK, Steps
<1>3. StepInv' /\ CurrentInv'
  BY DEF Restart, StepInv, CurrentInv
<1>4. QED
  BY <1>2, <1>3 DEF KInv

\* Every step keeps the invariant.
LEMMA KNext == KInv /\ [Next]_vars => KInv'
<1> SUFFICES ASSUME KInv, [Next]_vars PROVE KInv'
  OBVIOUS
<1>1. CASE \E p \in Processes : Enter(p) \/ Exists(p) \/ CreateFails(p) \/ Request(p)
  BY <1>1, LookingKeeps
<1>2. CASE \E p \in Processes : Truncate(p) \/ Store(p)
  BY <1>2, SettingKeeps
<1>3. CASE \E p \in Processes : Create(p) \/ Generate(p)
  BY <1>3, GenerateKeeps
<1>4. CASE \E p \in Processes : Read(p)
  BY <1>4, ReadKeeps
<1>5. CASE Serve \/ \E p \in Checks : Kill(p)
  BY <1>5, ServeKillKeeps
<1>6. CASE Restart
  BY <1>6, ContainerKeeps
<1>7. CASE Stopped \/ UNCHANGED vars
  BY <1>7 DEF Stopped, vars, KInv, TypeOK, StepInv, CurrentInv, Current
<1>8. QED
  BY <1>1, <1>2, <1>3, <1>4, <1>5, <1>6, <1>7 DEF Next

\* The invariant of the key file holds in every state (boot.py:69-78).
THEOREM ApiKeyInvariance == Spec => []KInv
  BY KInit, KNext, PTL DEF Spec

\* All variables keep their types; in particular no call of key() reads a
\* file that is not there.
THEOREM ApiKeyTypes == Spec => []TypeOK
<1>1. KInv => TypeOK
  BY DEF KInv
<1>2. QED
  BY <1>1, ApiKeyInvariance, PTL

\* No caller of key() gets another key than the server was started with, for
\* any number of processes, calls and containers (boot.py:72-82).
THEOREM CallersAgree == Spec => []KeysAgree
<1>1. KInv => KeysAgree
  BY DEF KInv, CurrentInv, KeysAgree
<1>2. QED
  BY <1>1, ApiKeyInvariance, PTL

\* A generated key is never overwritten while its container has no API_KEY
\* (boot.py:75-77).
THEOREM GeneratedKeyKept == Spec => KeyKept
<1> DEFINE Kept == setting = Unset /\ file \notin {Absent, Empty} => file' = file
<1>1. ASSUME KInv, [Next]_vars PROVE Kept
  <2>1. SUFFICES ASSUME setting = Unset, file \notin {Absent, Empty} PROVE file' = file
    OBVIOUS
  <2>2. ASSUME NEW p \in Processes
        PROVE  ~Truncate(p) /\ ~Store(p) /\ ~Create(p) /\ ~Generate(p)
    BY <1>1, <2>1 DEF Truncate, Store, Create, Generate, Goto, KInv, StepInv
  <2>3. QED
    BY <1>1, <2>1, <2>2 DEF Next, Enter, Exists, CreateFails, Read, Request, Serve, Kill, Restart,
       Stopped, vars, Goto
<1>2. QED
  BY <1>1, ApiKeyInvariance, PTL DEF Spec, KeyKept
=============================================================================
