----------------------------- MODULE Launcher -----------------------------
(***************************************************************************)
(* boot.py, serve(), smoke() and save(): the launcher of one container     *)
(* starts the inference server, waits until it is healthy, puts it through *)
(* the acceptance checks, reports ready and waits for its end.  SIGTERM    *)
(* and SIGINT are forwarded to the server and otherwise ignored: the       *)
(* launcher ends only when it notices that the server has.  Each check     *)
(* that passes leaves a receipt, written to a temporary file and renamed.  *)
(*                                                                         *)
(* The smoke command of the README runs the same checks and writes the     *)
(* same receipts, through the same temporary names, from a process of its  *)
(* own.  The state directory outlives the container.  Any write, rename or *)
(* start of a process can raise.                                           *)
(*                                                                         *)
(* Signals before the handlers are installed are left out: they end the    *)
(* container as a whole, which can happen at any step (Restart).           *)
(***************************************************************************)
EXTENDS Naturals

CONSTANTS
  Launcher, Commands,  \* the launcher; processes of the smoke command
  Checks,              \* number of acceptance checks; 4 in the code
  Missing, Torn,       \* no file; a file that is not yet written in full
  MaxRuns, MaxCommands \* bounds on containers and on smoke commands

Processes == {Launcher} \cup Commands
Names == 0..Checks  \* launch.json is 0; each check has its receipt

ASSUME ProcessAssumption == Launcher \notin Commands
ASSUME FilesAssumption == Missing \notin Nat /\ Torn \notin Nat /\ Missing # Torn
ASSUME BoundsAssumption == Checks \in Nat \ {0} /\ MaxRuns \in Nat \ {0} /\ MaxCommands \in Nat

VARIABLES
  pc,         \* process -> what it is at
  check,      \* process -> the check, or the file, it is at
  server,     \* "none", "starting", "healthy" or "exited"
  terminated, \* SIGTERM was sent to the server
  signalled,  \* SIGTERM or SIGINT arrived at the launcher
  late,       \* the deadline of 1800 s has passed
  full,       \* the pipe of the server's output is full
  temporary,  \* name -> Missing, Torn or the run that wrote it
  file,       \* the same, for the file itself
  handle,     \* process -> where the file it has open is now
  contended,  \* history: two processes had one temporary file open at once
  runs, commands

serving == <<server, terminated, signalled, late, full>>
disk == <<temporary, file, handle, contended>>
bounds == <<runs, commands>>
vars == <<pc, check, serving, disk, bounds>>

Alive == server \in {"starting", "healthy"}
\* A server whose output nobody reads comes to stand still.
Answers == server = "healthy" /\ ~full

\* Where a process goes when a check or a save raises: a smoke command ends,
\* and so does the launcher while it writes launch.json; from then on it is
\* in the try block and leaves that first.
Raised(p) ==
  IF p # Launcher THEN "idle" ELSE IF check[p] = 0 THEN "ended" ELSE "finally"

Init ==
  /\ pc = [p \in Processes |-> IF p = Launcher THEN "configure" ELSE "idle"]
  /\ check = [p \in Processes |-> 0]
  /\ server = "none" /\ terminated = FALSE /\ signalled = FALSE
  /\ late = FALSE /\ full = FALSE
  /\ temporary = [k \in Names |-> Missing] /\ file = [k \in Names |-> Missing]
  /\ handle = [p \in Processes |-> "closed"] /\ contended = FALSE
  /\ runs = 1 /\ commands = 0

Goto(p, from, to) == pc[p] = from /\ pc' = [pc EXCEPT ![p] = to]

\* A save raises where it is and leaves the files as they are.
Fails(p, from) ==
  /\ Goto(p, from, Raised(p))
  /\ handle' = [handle EXCEPT ![p] = "closed"]
  /\ UNCHANGED <<check, serving, temporary, file, contended, bounds>>
-----------------------------------------------------------------------------
(* save(name, value)                                                       *)

\* temporary.write_text opens (and truncates) before it writes.
Open(p) ==
  /\ Goto(p, "open", "write")
  /\ temporary' = [temporary EXCEPT ![check[p]] = Torn]
  /\ handle' = [handle EXCEPT ![p] = "temporary"]
  /\ contended' = (contended \/ \E q \in Processes \ {p} :
                                  pc[q] \in {"write", "replace"} /\ check[q] = check[p])
  /\ UNCHANGED <<check, serving, file, bounds>>

\* The content goes to the open file, wherever others have moved it.
Store(p) ==
  /\ Goto(p, "write", "replace")
  /\ temporary' = IF handle[p] = "temporary" THEN [temporary EXCEPT ![check[p]] = runs]
                                              ELSE temporary
  /\ file' = IF handle[p] = "file" THEN [file EXCEPT ![check[p]] = runs] ELSE file
  /\ handle' = [handle EXCEPT ![p] = "closed"]
  /\ UNCHANGED <<check, serving, contended, bounds>>

\* What follows a save: the server is started after launch.json; after the
\* last check the launcher reports ready.
Next_Check_OneMore(p) ==  \* mutation: a receipt beyond the last check's
  IF check[p] <= Checks
  THEN /\ pc' = [pc EXCEPT ![p] = IF check[p] = 0 THEN "spawn" ELSE "ask"]
       /\ check' = [check EXCEPT ![p] = @ + 1]
  ELSE /\ pc' = [pc EXCEPT ![p] = IF p = Launcher THEN "ready" ELSE "idle"]
       /\ UNCHANGED check
Next_Check(p) ==
  IF check[p] < Checks
  THEN /\ pc' = [pc EXCEPT ![p] = IF check[p] = 0 THEN "spawn" ELSE "ask"]
       /\ check' = [check EXCEPT ![p] = @ + 1]
  ELSE /\ pc' = [pc EXCEPT ![p] = IF p = Launcher THEN "ready" ELSE "idle"]
       /\ UNCHANGED check

\* Files that other processes have open move along.
Moved(p) ==
  [q \in Processes |->
     IF check[q] # check[p] \/ handle[q] \in {"closed", "gone"} THEN handle[q]
     ELSE IF handle[q] = "temporary" THEN "file" ELSE "gone"]

\* temporary.replace(name), for which another process may have been faster.
Replace_KeepsOld(p) ==  \* mutation: a receipt that exists is kept
  /\ pc[p] = "replace"
  /\ file' = IF file[check[p]] = Missing THEN [file EXCEPT ![check[p]] = temporary[check[p]]] ELSE file
  /\ temporary' = [temporary EXCEPT ![check[p]] = Missing]
  /\ handle' = Moved(p)
  /\ Next_Check(p)
  /\ UNCHANGED <<serving, contended, bounds>>
Replace(p) ==
  /\ pc[p] = "replace" /\ temporary[check[p]] # Missing
  /\ file' = [file EXCEPT ![check[p]] = temporary[check[p]]]
  /\ temporary' = [temporary EXCEPT ![check[p]] = Missing]
  /\ handle' = Moved(p)
  /\ Next_Check(p)
  /\ UNCHANGED <<serving, contended, bounds>>

Save_InPlace(p) ==  \* mutation: the receipt is truncated and rewritten where it is
  \/ /\ Goto(p, "open", "write")
     /\ file' = [file EXCEPT ![check[p]] = Torn]
     /\ UNCHANGED <<check, serving, temporary, handle, contended, bounds>>
  \/ /\ pc[p] = "write"
     /\ file' = [file EXCEPT ![check[p]] = runs]
     /\ Next_Check(p)
     /\ UNCHANGED <<serving, temporary, handle, contended, bounds>>
Save(p) ==
  \/ Open(p) \/ Store(p) \/ Replace(p)
  \/ \E from \in {"open", "write", "replace"} : Fails(p, from)
-----------------------------------------------------------------------------
(* smoke()                                                                 *)

\* A request and the assertions on its answer, which may take 300 s.
Ask(p) ==
  /\ \/ Answers /\ Goto(p, "ask", "open")
     \/ Goto(p, "ask", Raised(p))
  /\ UNCHANGED <<check, serving, disk, bounds>>

Command(p) ==
  /\ commands < MaxCommands /\ p \in Commands
  /\ Goto(p, "idle", "ask")
  /\ check' = [check EXCEPT ![p] = 1]
  /\ commands' = commands + 1
  /\ UNCHANGED <<serving, disk, runs>>

Kill(p) ==
  /\ p \in Commands /\ pc[p] # "idle"
  /\ pc' = [pc EXCEPT ![p] = "idle"] /\ handle' = [handle EXCEPT ![p] = "closed"]
  /\ UNCHANGED <<check, serving, temporary, file, contended, bounds>>
-----------------------------------------------------------------------------
(* serve()                                                                 *)

\* The assertions on the settings and the machine.
Configure ==
  /\ Goto(Launcher, "configure", "open") \/ Goto(Launcher, "configure", "ended")
  /\ UNCHANGED <<check, serving, disk, bounds>>

\* key() and Popen, either of which can raise; then the handlers and the log
\* thread.
Spawn ==
  /\ \/ Goto(Launcher, "spawn", "poll") /\ server' = "starting"
     \/ Goto(Launcher, "spawn", "ended") /\ UNCHANGED server
  /\ UNCHANGED <<check, terminated, signalled, late, full, disk, bounds>>

\* while process.poll() is None and time.monotonic() < deadline
Poll_NoDeadline ==  \* mutation: only the server's end stops the loop
  /\ Goto(Launcher, "poll", IF Alive THEN "request" ELSE "finally")
  /\ UNCHANGED <<check, serving, disk, bounds>>
Poll ==
  /\ Goto(Launcher, "poll", IF Alive /\ ~late THEN "request" ELSE "finally")
  /\ UNCHANGED <<check, serving, disk, bounds>>

\* /health answers, or anything else happens and the loop sleeps and goes on.
Health ==
  /\ \/ Answers /\ Goto(Launcher, "request", "ask")
     \/ Goto(Launcher, "request", "poll")
  /\ UNCHANGED <<check, serving, disk, bounds>>

\* process.wait() returns.
Wait ==
  /\ server = "exited" /\ Goto(Launcher, "ready", "finally")
  /\ UNCHANGED <<check, serving, disk, bounds>>

\* stop(): SIGTERM to the server's process group if it is still running.
Stop_Forgotten ==  \* mutation: the server is left as it is
  /\ Goto(Launcher, "finally", "ended")
  /\ UNCHANGED <<check, serving, disk, bounds>>
Stop ==
  /\ Goto(Launcher, "finally", "ended")
  /\ terminated' = (terminated \/ Alive)
  /\ UNCHANGED <<check, server, signalled, late, full, disk, bounds>>

\* A signal arrives while serve() is at any step after the server's start.
Signal_Swallowed ==  \* mutation: the handler does not pass the signal on
  /\ server # "none" /\ pc[Launcher] # "ended" /\ ~signalled
  /\ signalled' = TRUE
  /\ UNCHANGED <<pc, check, server, terminated, late, full, disk, bounds>>
Signal ==
  /\ server # "none" /\ pc[Launcher] # "ended" /\ ~signalled
  /\ signalled' = TRUE /\ terminated' = (terminated \/ Alive)
  /\ UNCHANGED <<pc, check, server, late, full, disk, bounds>>

\* The log thread reads what the server has written, as long as the launcher
\* lives.  The bytes are taken to be text; see the README.
Drain ==
  /\ full /\ pc[Launcher] # "ended" /\ full' = FALSE
  /\ UNCHANGED <<pc, check, server, terminated, signalled, late, disk, bounds>>
-----------------------------------------------------------------------------
(* The server and the clock (external)                                     *)

Log ==
  /\ Alive /\ ~full /\ full' = TRUE
  /\ UNCHANGED <<pc, check, server, terminated, signalled, late, disk, bounds>>

Heals ==
  /\ server = "starting" /\ ~full /\ server' = "healthy"
  /\ UNCHANGED <<pc, check, terminated, signalled, late, full, disk, bounds>>

Exits ==
  /\ Alive /\ server' = "exited"
  /\ UNCHANGED <<pc, check, terminated, signalled, late, full, disk, bounds>>

Deadline ==
  /\ server # "none" /\ ~late /\ late' = TRUE
  /\ UNCHANGED <<pc, check, server, terminated, signalled, full, disk, bounds>>

\* The container ends at whatever step and a new one is started.
Restart ==
  /\ runs < MaxRuns
  /\ runs' = runs + 1
  /\ pc' = [p \in Processes |-> IF p = Launcher THEN "configure" ELSE "idle"]
  /\ check' = [p \in Processes |-> 0]
  /\ server' = "none" /\ terminated' = FALSE /\ signalled' = FALSE
  /\ late' = FALSE /\ full' = FALSE
  /\ handle' = [p \in Processes |-> "closed"]
  /\ UNCHANGED <<temporary, file, contended, commands>>

\* The launcher has ended, or waits for a server nobody stops.
Stopped == pc[Launcher] = "ended" /\ runs = MaxRuns /\ UNCHANGED vars

Serve == Configure \/ Save(Launcher) \/ Spawn \/ Poll \/ Health \/ Ask(Launcher) \/ Wait \/ Stop

Next ==
  \/ Serve \/ Signal \/ Drain
  \/ \E p \in Commands : Command(p) \/ Ask(p) \/ Save(p) \/ Kill(p)
  \/ Heals \/ Log \/ Exits \/ Deadline
  \/ Restart
  \/ Stopped

Spec == Init /\ [][Next]_vars

\* Both threads of the launcher run, and each request has a timeout; time
\* passes; a server that was sent SIGTERM exits, unless it stands still.  It
\* writes on while it comes to its end, so that its fairness is strong.
FairSpec ==
  /\ Spec /\ WF_vars(Serve) /\ WF_vars(Drain) /\ WF_vars(Deadline)
  /\ SF_vars(terminated /\ ~full /\ Exits)
-----------------------------------------------------------------------------
(* Properties                                                              *)

Steps == {"configure", "open", "write", "replace", "spawn", "poll", "request", "ask",
          "ready", "finally", "ended", "idle"}

TypeOK ==
  /\ pc \in [Processes -> Steps] /\ check \in [Processes -> Names]
  /\ server \in {"none", "starting", "healthy", "exited"}
  /\ terminated \in BOOLEAN /\ signalled \in BOOLEAN /\ late \in BOOLEAN
  /\ full \in BOOLEAN
  /\ temporary \in [Names -> {Missing, Torn} \cup 1..MaxRuns]
  /\ file \in [Names -> {Missing, Torn} \cup 1..MaxRuns]
  /\ handle \in [Processes -> {"closed", "temporary", "file", "gone"}]
  /\ contended \in BOOLEAN
  /\ runs \in 1..MaxRuns /\ commands \in 0..MaxCommands

\* A receipt is either absent or whole, whenever the container stops, unless
\* two processes were saving the same receipt at once (boot.py:23-27).
ReceiptsWhole == ~contended => \A k \in Names : file[k] # Torn

\* When ready is reported, every receipt is of a check this container's
\* server has passed, not one left by an earlier container
\* (boot.py:88-134, 193-194 and README.md:44).
ReadyReceipts ==
  pc[Launcher] = "ready" /\ ~contended => \A k \in Names : file[k] = runs

\* The launcher never ends and leaves a running server that was not told to
\* stop, whichever step failed (boot.py:174-176 and 183-197).
ServerStopped == pc[Launcher] = "ended" => ~Alive \/ terminated

\* Once the server is started, the launcher reports ready or ends: neither a
\* server that never answers nor one that dies keeps it waiting.
ServeDecides == pc[Launcher] = "poll" ~> pc[Launcher] \in {"ready", "ended", "configure"}

\* A signal ends the launcher, at whatever step it arrives and however much
\* the server writes before it exits (boot.py:174-182).
SignalEnds == signalled ~> pc[Launcher] \in {"ended", "configure"}
=============================================================================
