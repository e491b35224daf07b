------------------------------ MODULE ApiKey ------------------------------
(***************************************************************************)
(* boot.py, key(): the API key the processes of one container share        *)
(* through the file state/api-key, which outlives the container.  The      *)
(* launcher calls key() to start the inference server and again for each   *)
(* of its requests; the container's health check and the documented smoke  *)
(* command call it in processes of their own, from the moment the          *)
(* container starts and at any time.  Nothing but the file system          *)
(* coordinates them: opening a file to write it truncates it, its content  *)
(* appears when it is closed.                                              *)
(*                                                                         *)
(* The setting API_KEY is the same for all processes of a container and    *)
(* may differ in the next one.  A process can be killed at any step (the   *)
(* health check has a timeout), and so can the container.                  *)
(***************************************************************************)
EXTENDS Naturals

CONSTANTS
  Launcher, Checks,         \* the launcher; health checks and smoke commands
  Settings, Unset,          \* values API_KEY can have; none
  Absent, Empty,            \* no file; a file (or a key) without content
  MaxRuns, MaxCalls         \* bounds on containers and on calls of key()

Processes == {Launcher} \cup Checks
Generated == [by : Processes, run : 1..MaxRuns]  \* never the same one twice
Keys == Settings \cup Generated

ASSUME ProcessAssumption == Launcher \notin Checks
ASSUME KeysAssumption == Unset \notin Keys \cup {Empty} /\ Absent \notin Keys \cup {Empty}
ASSUME BoundsAssumption == MaxRuns \in Nat \ {0} /\ MaxCalls \in Nat

Steps == {"idle", "truncate", "store", "exists", "create", "generate", "read", "done",
          "failed"}

VARIABLES
  setting,  \* API_KEY of this container
  file,     \* content of state/api-key
  pc,       \* process -> "idle", "failed", a step of key(), or "done"
  got,      \* process -> what its last finished key() returned
  server,   \* the key the server was started with, Unset before
  calls, runs  \* calls of key() so far; containers so far

vars == <<setting, file, pc, got, server, calls, runs>>

Init ==
  /\ setting \in Settings \cup {Unset}
  /\ file = Absent
  /\ pc = [p \in Processes |-> "idle"] /\ got = [p \in Processes |-> Empty]
  /\ server = Unset
  /\ calls = 0 /\ runs = 1

Goto(p, from, to) ==
  /\ pc[p] = from /\ pc' = [pc EXCEPT ![p] = to]
  /\ UNCHANGED <<setting, server, runs>>

\* key() begins: with API_KEY set, the file is rewritten each time.
Enter(p) ==
  /\ calls < MaxCalls
  /\ Goto(p, "idle", IF setting # Unset THEN "truncate" ELSE "exists")
  /\ calls' = calls + 1
  /\ UNCHANGED <<file, got>>

\* path.write_text(value): open, which truncates or creates, then write.
Truncate(p) ==
  /\ Goto(p, "truncate", "store")
  /\ file' = Empty
  /\ UNCHANGED <<got, calls>>

Store(p) ==
  /\ Goto(p, "store", "read")
  /\ file' = setting
  /\ UNCHANGED <<got, calls>>

\* elif not path.exists()
Exists_Assumed(p) ==  \* mutation: the file is taken to be there
  /\ Goto(p, "exists", "read")
  /\ UNCHANGED <<file, got, calls>>
Exists(p) ==
  /\ Goto(p, "exists", IF file = Absent THEN "create" ELSE "read")
  /\ UNCHANGED <<file, got, calls>>

\* os.open with O_CREAT: with O_EXCL it raises FileExistsError when another
\* process was faster.
Create_NotExclusive(p) ==  \* mutation: without O_EXCL
  /\ Goto(p, "create", "generate")
  /\ file' = IF file = Absent THEN Empty ELSE file
  /\ UNCHANGED <<got, calls>>
Create(p) ==
  /\ file = Absent
  /\ Goto(p, "create", "generate")
  /\ file' = Empty
  /\ UNCHANGED <<got, calls>>

\* handle.write(secrets.token_urlsafe(32)), visible when the file is closed.
Generate(p) ==
  /\ Goto(p, "generate", "read")
  /\ file' = [by |-> p, run |-> runs]
  /\ UNCHANGED <<got, calls>>

Read(p) ==
  /\ Goto(p, "read", "done")
  /\ got' = [got EXCEPT ![p] = file]
  /\ UNCHANGED <<file, calls>>

\* FileExistsError.  It ends the launcher; a health check comes back.
CreateFails(p) ==
  /\ file # Absent
  /\ Goto(p, "create", IF p = Launcher THEN "failed" ELSE "idle")
  /\ UNCHANGED <<file, got, calls>>

\* serve(): the server is started with the key.
Serve ==
  /\ pc[Launcher] = "done" /\ server = Unset
  /\ pc' = [pc EXCEPT ![Launcher] = "idle"]
  /\ server' = got[Launcher]
  /\ UNCHANGED <<setting, file, got, calls, runs>>

\* request(): the key is sent along.
Request(p) ==
  /\ p = Launcher => server # Unset
  /\ Goto(p, "done", "idle")
  /\ UNCHANGED <<file, got, calls>>

Kill(p) ==
  /\ pc[p] # "idle"
  /\ pc' = [pc EXCEPT ![p] = "idle"]
  /\ UNCHANGED <<setting, file, got, server, calls, runs>>

\* The container ends, whatever its processes were doing, and another one is
\* started on the same state directory.
Restart ==
  /\ runs < MaxRuns
  /\ runs' = runs + 1
  /\ setting' \in Settings \cup {Unset}
  /\ pc' = [p \in Processes |-> "idle"] /\ got' = [p \in Processes |-> Empty]
  /\ server' = Unset
  /\ UNCHANGED <<file, calls>>

\* Both bounds are reached.
Stopped ==
  /\ calls = MaxCalls /\ runs = MaxRuns
  /\ \A p \in Processes : pc[p] \in {"idle", "failed"}
  /\ UNCHANGED vars

Next ==
  \/ \E p \in Processes :
       \/ Enter(p) \/ Truncate(p) \/ Store(p) \/ Exists(p)
       \/ Create(p) \/ CreateFails(p) \/ Generate(p) \/ Read(p) \/ Request(p)
  \/ Serve
  \/ \E p \in Checks : Kill(p)
  \/ Restart
  \/ Stopped

Spec == Init /\ [][Next]_vars
-----------------------------------------------------------------------------
(* Properties                                                              *)

TypeOK ==
  /\ setting \in Settings \cup {Unset}
  /\ file \in Keys \cup {Absent, Empty}
  /\ pc \in [Processes -> Steps]
  /\ got \in [Processes -> Keys \cup {Empty}]
  /\ server \in Keys \cup {Empty, Unset}
  /\ calls \in 0..MaxCalls /\ runs \in 1..MaxRuns

\* A key that is in the file while API_KEY is not set stays there for the
\* life of the container, however many processes call key() (boot.py:75-77).
KeyKept ==
  [][setting = Unset /\ file \notin {Absent, Empty} => file' = file]_vars

\* Whoever calls key() never gets another key than the server was started
\* with: at worst it catches the file between its opening and its writing
\* and gets none (boot.py:72-78 and 80-82).
KeysAgree ==
  \A p \in Processes :
    server \notin {Unset, Empty} /\ pc[p] = "done" => got[p] \in {server, Empty}

\* README.md:46 says of a generated key that it is in state/api-key.  The
\* key of the running server is not: a launcher that finds the file another
\* process has just created, and not yet written, starts the server with
\* an empty key (boot.py:75-78 and 170-172).
GeneratedKeyInFile == setting = Unset /\ server # Unset => file = server
=============================================================================
