-------------------------- MODULE LauncherProofs --------------------------
(***************************************************************************)
(* Proofs about Launcher, for any number of checks, smoke commands and     *)
(* containers.  The argument: as long as no two processes save the same    *)
(* receipt at once, whoever is writing one owns its temporary file, and    *)
(* what it renames is whole and of this container; so the launcher leaves  *)
(* a receipt of its own container behind at every check it passes.         *)
(***************************************************************************)
EXTENDS Launcher, TLAPS

Saving(p) == pc[p] \in {"write", "replace"}

\* There is no server before launch.json is written and Popen returns, so that
\* a launcher that ends until then leaves none behind.
ServerInv ==
  /\ pc[Launcher] = "configure" => check[Launcher] = 0
  /\ pc[Launcher] = "spawn" => check[Launcher] # 0
  /\ check[Launcher] = 0 \/ pc[Launcher] = "spawn" => server = "none"
  /\ ServerStopped

\* No two processes save the same file, and whoever saves one owns it.
OwnerInv ==
  ~contended =>
    \A p \in Processes : Saving(p) =>
      /\ \A q \in Processes \ {p} : Saving(q) => check[q] # check[p]
      /\ pc[p] = "write" => handle[p] = "temporary"
      /\ pc[p] = "replace" => temporary[check[p]] = runs

\* The files of the checks the launcher has passed are of this container.
PassedInv ==
  ~contended /\ pc[Launcher] \notin {"ready", "finally", "ended"} =>
    \A k \in Names : k < check[Launcher] => file[k] = runs

LInv == TypeOK /\ ServerInv /\ OwnerInv /\ PassedInv /\ ReceiptsWhole /\ ReadyReceipts

\* What the proofs need of the constants.
LEMMA LauncherConstants ==
  /\ Launcher \in Processes /\ Commands = Processes \ {Launcher}
  /\ Names \subseteq Nat /\ 0 \in Names /\ 1 \in 1..MaxRuns
  /\ Missing \notin 1..MaxRuns /\ Torn \notin 1..MaxRuns /\ Missing # Torn
  BY ProcessAssumption, FilesAssumption, BoundsAssumption DEF Processes, Names

\* The invariant holds when the first container starts.
LEMMA LInit == Init => LInv
<1> SUFFICES ASSUME Init PROVE LInv
  OBVIOUS
<1> USE LauncherConstants
<1>1. TypeOK
  <2>1. pc \in [Processes -> Steps] /\ check \in [Processes -> Names]
    BY DEF Init, Steps
  <2>2. /\ temporary \in [Names -> {Missing, Torn} \cup 1..MaxRuns]
        /\ file \in [Names -> {Missing, Torn} \cup 1..MaxRuns]
        /\ handle \in [Processes -> {"closed", "temporary", "file", "gone"}]
    BY DEF Init
  <2>3. runs \in 1..MaxRuns /\ commands \in 0..MaxCommands
    BY BoundsAssumption DEF Init
  <2>4. QED
    BY <2>1, <2>2, <2>3 DEF Init, TypeOK
<1>2. /\ pc[Launcher] = "configure" /\ check[Launcher] = 0
      /\ \A p \in Processes : ~Saving(p)
  BY DEF Init, Saving
<1>3. ServerInv /\ OwnerInv /\ PassedInv /\ ReceiptsWhole /\ ReadyReceipts
  BY <1>2 DEF Init, ServerInv, ServerStopped, OwnerInv, PassedInv, ReceiptsWhole, ReadyReceipts
<1>4. QED
  BY <1>1, <1>3 DEF LInv

\* Opening the temporary file makes its process the owner, or is noticed.
LEMMA OpenKeeps ==
  ASSUME LInv, NEW p \in Processes, Open(p)
  PROVE  LInv'
<1> USE LauncherConstants DEF LInv
<1>1. TypeOK'
  BY DEF Open, Goto, TypeOK, serving, bounds, Steps
<1>2. /\ pc[p] = "open" /\ pc' = [pc EXCEPT ![p] = "write"] /\ handle'[p] = "temporary"
      /\ \A q \in Processes \ {p} : pc'[q] = pc[q] /\ handle'[q] = handle[q]
      /\ temporary' = [temporary EXCEPT ![check[p]] = Torn]
      /\ UNCHANGED <<check, file, runs, server, terminated>>
      /\ ~contended' => ~contended /\ \A q \in Processes \ {p} : Saving(q) => check[q] # check[p]
  BY DEF Open, Goto, TypeOK, serving, bounds, Saving
<1>3. ServerInv' /\ PassedInv' /\ ReceiptsWhole' /\ ReadyReceipts'
  BY <1>2 DEF TypeOK, ServerInv, ServerStopped, Alive, PassedInv, ReceiptsWhole, ReadyReceipts
<1>4. OwnerInv'
  BY <1>2 DEF TypeOK, OwnerInv, Saving
<1>5. QED
  BY <1>1, <1>3, <1>4

\* Writing goes to the owner's file.
LEMMA StoreKeeps ==
  ASSUME LInv, NEW p \in Processes, Store(p)
  PROVE  LInv'
<1> USE LauncherConstants DEF LInv
<1>1. TypeOK'
  BY DEF Store, Goto, TypeOK, serving, bounds, Steps
<1>2. /\ pc[p] = "write" /\ pc' = [pc EXCEPT ![p] = "replace"]
      /\ \A q \in Processes \ {p} : pc'[q] = pc[q] /\ handle'[q] = handle[q]
      /\ UNCHANGED <<check, runs, server, terminated, contended>>
  BY DEF Store, Goto, TypeOK, serving, bounds
<1>3. ~contended => temporary' = [temporary EXCEPT ![check[p]] = runs] /\ file' = file
  BY <1>2 DEF Store, OwnerInv, Saving
<1>4. ServerInv' /\ PassedInv' /\ ReceiptsWhole' /\ ReadyReceipts'
  BY <1>2, <1>3 DEF TypeOK, ServerInv, ServerStopped, Alive, PassedInv, ReceiptsWhole, ReadyReceipts
<1>5. OwnerInv'
  <2>1. ~contended => temporary'[check[p]] = runs
    BY <1>3 DEF TypeOK
  <2>2. Saving(p) /\ pc'[p] = "replace"
    BY <1>2 DEF TypeOK, Saving
  <2>3. ~contended => \A q \in Processes \ {p} : Saving(q) =>
          check[q] # check[p] /\ temporary'[check[q]] = temporary[check[q]]
    <3>1. ~contended => \A q \in Processes \ {p} : Saving(q) => check[q] # check[p]
      BY <2>2 DEF OwnerInv
    <3>2. \A q \in Processes : check[q] \in Names
      BY DEF TypeOK
    <3>3. QED
      BY <1>3, <3>1, <3>2 DEF TypeOK
  <2>4. QED
    BY <1>2, <2>1, <2>2, <2>3 DEF OwnerInv, Saving
<1>6. QED
  BY <1>1, <1>4, <1>5

\* Renaming publishes a whole receipt of this container, and moves no other
\* process's file.
LEMMA ReplaceKeeps ==
  ASSUME LInv, NEW p \in Processes, Replace(p)
  PROVE  LInv'
<1> USE LauncherConstants DEF LInv
<1>1. /\ pc[p] = "replace" /\ check[p] \in Names /\ runs \in 1..MaxRuns
      /\ UNCHANGED <<server, terminated, signalled, late, full, contended, runs, commands>>
      /\ \A q \in Processes \ {p} : pc'[q] = pc[q] /\ check'[q] = check[q]
  BY DEF Replace, Next_Check, TypeOK, serving, bounds
<1>2. /\ pc' = [pc EXCEPT ![p] = pc'[p]] /\ pc'[p] \in {"spawn", "ask", "ready", "idle"}
      /\ check' = [check EXCEPT ![p] = check'[p]] /\ check'[p] \in Names
      /\ pc'[p] = "spawn" => check[p] = 0
      /\ pc'[p] = "ready" => check[p] = Checks /\ check'[p] = check[p]
      /\ check'[p] # 0
      /\ check'[p] = check[p] \/ check'[p] = check[p] + 1
  BY BoundsAssumption DEF Replace, Next_Check, TypeOK, Names
<1>3. TypeOK'
  <2>1. pc' \in [Processes -> Steps] /\ check' \in [Processes -> Names]
    BY <1>2 DEF TypeOK, Steps
  <2>2. /\ temporary' \in [Names -> {Missing, Torn} \cup 1..MaxRuns]
        /\ file' \in [Names -> {Missing, Torn} \cup 1..MaxRuns]
        /\ handle' \in [Processes -> {"closed", "temporary", "file", "gone"}]
    BY <1>1 DEF Replace, Moved, TypeOK
  <2>3. QED
    BY <1>1, <2>1, <2>2 DEF TypeOK
<1>4. ServerInv'
  BY <1>1, <1>2 DEF TypeOK, ServerInv, ServerStopped, Alive
<1>5. CASE contended
  BY <1>1, <1>3, <1>4, <1>5 DEF OwnerInv, PassedInv, ReceiptsWhole, ReadyReceipts
<1>6. CASE ~contended
  <2>1. temporary[check[p]] = runs /\ temporary[check[p]] # Missing
    BY <1>1, <1>6 DEF OwnerInv, Saving
  <2>2. /\ file' = [file EXCEPT ![check[p]] = runs]
        /\ temporary' = [temporary EXCEPT ![check[p]] = Missing]
        /\ handle' = Moved(p) /\ Next_Check(p)
    BY <1>1, <2>1 DEF Replace
  <2>3. \A q \in Processes \ {p} : Saving(q) => check[q] # check[p] /\ handle'[q] = handle[q]
    BY <1>1, <1>6, <2>2 DEF OwnerInv, Saving, Moved
  <2>4. OwnerInv'
    BY <1>1, <1>2, <2>2, <2>3 DEF TypeOK, OwnerInv, Saving
  <2>5. ReceiptsWhole'
    BY <1>1, <2>2 DEF TypeOK, ReceiptsWhole
  <2>6. PassedInv'
    BY <1>1, <1>2, <1>6, <2>2 DEF TypeOK, PassedInv, Names
  <2>7. ReadyReceipts'
    BY <1>1, <1>2, <1>6, <2>2 DEF TypeOK, PassedInv, ReadyReceipts, Names
  <2>8. QED
    BY <1>3, <1>4, <2>4, <2>5, <2>6, <2>7
<1>7. QED
  BY <1>5, <1>6

\* A step that saves nothing keeps what the files are known for, unless it
\* moves a process to where more is claimed.
LEMMA QuietKeeps ==
  ASSUME LInv, TypeOK', ServerInv', UNCHANGED <<temporary, file, contended, runs>>,
         \A p \in Processes : Saving(p)' =>
           Saving(p) /\ pc'[p] = pc[p] /\ check'[p] = check[p] /\ handle'[p] = handle[p],
         pc'[Launcher] = "ready" => pc[Launcher] = "ready",
         pc'[Launcher] \in {"finally", "ended"} \/ pc[Launcher] \notin {"finally", "ended"},
         check'[Launcher] = check[Launcher]
  PROVE  LInv'
<1> USE LauncherConstants DEF LInv
<1>1. OwnerInv'
  BY DEF OwnerInv, Saving
<1>2. ReceiptsWhole' /\ ReadyReceipts'
  BY DEF ReceiptsWhole, ReadyReceipts
<1>3. PassedInv'
  BY DEF PassedInv, ReadyReceipts, TypeOK, Names
<1>4. QED
  BY <1>1, <1>2, <1>3

\* What raises ends a command, and the launcher at once only at launch.json.
LEMMA RaisedEnds ==
  ASSUME NEW p \in Processes
  PROVE  /\ Raised(p) \in {"idle", "ended", "finally"}
         /\ p = Launcher => Raised(p) = "finally" \/ (Raised(p) = "ended" /\ check[p] = 0)
  BY DEF Raised

\* A save that raises leaves the files as they are.
LEMMA FailsKeeps ==
  ASSUME LInv, NEW p \in Processes, NEW from \in {"open", "write", "replace"}, Fails(p, from)
  PROVE  LInv'
<1> USE LauncherConstants
<1>1. /\ UNCHANGED <<check, server, terminated, signalled, late, full, temporary, file,
                     contended, runs, commands>>
      /\ pc[p] = from /\ pc' = [pc EXCEPT ![p] = Raised(p)]
      /\ handle' = [handle EXCEPT ![p] = "closed"]
  BY DEF Fails, Goto, serving, bounds
<1>2. TypeOK'
  BY <1>1, RaisedEnds DEF LInv, TypeOK, Steps
<1>3. ServerInv'
  BY <1>1, RaisedEnds DEF LInv, TypeOK, ServerInv, ServerStopped, Alive
<1>4. /\ \A q \in Processes : Saving(q)' => Saving(q) /\ pc'[q] = pc[q] /\ handle'[q] = handle[q]
      /\ pc'[Launcher] = "ready" => pc[Launcher] = "ready"
      /\ pc'[Launcher] \in {"finally", "ended"} \/ pc[Launcher] \notin {"finally", "ended"}
  BY <1>1, RaisedEnds DEF LInv, TypeOK, Saving
<1>5. QED
  BY <1>1, <1>2, <1>3, <1>4, QuietKeeps

\* The launcher's steps that save nothing.
LEMMA ServeKeeps ==
  ASSUME LInv, Configure \/ Spawn \/ Poll \/ Health \/ Wait \/ Stop
  PROVE  LInv'
<1> USE LauncherConstants
<1>1. /\ UNCHANGED <<temporary, file, handle, contended, runs, commands, check>>
      /\ pc[Launcher] \in {"configure", "spawn", "poll", "request", "ready", "finally"}
      /\ \E to \in {"open", "poll", "request", "ask", "finally", "ended"} :
           /\ pc' = [pc EXCEPT ![Launcher] = to]
           /\ pc[Launcher] = "finally" => to = "ended"
  BY DEF Configure, Spawn, Poll, Health, Wait, Stop, Goto, disk, bounds
<1>2. TypeOK'
  <2>1. pc' \in [Processes -> Steps]
    BY <1>1 DEF LInv, TypeOK, Steps
  <2>2. /\ server' \in {"none", "starting", "healthy", "exited"}
        /\ terminated' \in BOOLEAN /\ signalled' \in BOOLEAN /\ late' \in BOOLEAN
        /\ full' \in BOOLEAN
    BY DEF LInv, TypeOK, Configure, Spawn, Poll, Health, Wait, Stop, serving, Alive
  <2>3. QED
    BY <1>1, <2>1, <2>2 DEF LInv, TypeOK
<1>3. ServerInv'
  BY <1>1 DEF LInv, TypeOK, ServerInv, ServerStopped, Alive, Configure, Spawn, Poll, Health,
     Wait, Stop, Goto, serving
<1>4. /\ \A p \in Processes : Saving(p)' => Saving(p) /\ pc'[p] = pc[p]
      /\ pc'[Launcher] # "ready"
      /\ pc'[Launcher] \in {"finally", "ended"} \/ pc[Launcher] \notin {"finally", "ended"}
  BY <1>1 DEF LInv, TypeOK, Saving
<1>5. QED
  BY <1>1, <1>2, <1>3, <1>4, QuietKeeps

\* Asking the server, by the launcher or by a command.
LEMMA AskKeeps ==
  ASSUME LInv, NEW p \in Processes, Ask(p)
  PROVE  LInv'
<1> USE LauncherConstants
<1>1. /\ UNCHANGED <<check, server, terminated, signalled, late, full, temporary, file, handle,
                     contended, runs, commands>>
      /\ pc[p] = "ask" /\ \E to \in {"open", Raised(p)} : pc' = [pc EXCEPT ![p] = to]
  BY DEF Ask, Goto, serving, disk, bounds
<1>2. TypeOK'
  BY <1>1, RaisedEnds DEF LInv, TypeOK, Steps
<1>3. ServerInv'
  BY <1>1, RaisedEnds DEF LInv, TypeOK, ServerInv, ServerStopped, Alive
<1>4. /\ \A q \in Processes : Saving(q)' => Saving(q) /\ pc'[q] = pc[q]
      /\ pc'[Launcher] = "ready" => pc[Launcher] = "ready"
      /\ pc'[Launcher] \in {"finally", "ended"} \/ pc[Launcher] \notin {"finally", "ended"}
  BY <1>1, RaisedEnds DEF LInv, TypeOK, Saving
<1>5. QED
  BY <1>1, <1>2, <1>3, <1>4, QuietKeeps

\* A smoke command starts or is killed.
LEMMA CommandKeeps ==
  ASSUME LInv, NEW p \in Commands, Command(p) \/ Kill(p)
  PROVE  LInv'
<1> USE LauncherConstants
<1>1. /\ UNCHANGED <<server, terminated, signalled, late, full, temporary, file, contended, runs>>
      /\ \E to \in {"ask", "idle"} : pc' = [pc EXCEPT ![p] = to]
      /\ p # Launcher
      /\ \A q \in Processes \ {p} : check'[q] = check[q] /\ handle'[q] = handle[q]
  BY DEF Command, Kill, Goto, serving, disk, bounds, LInv, TypeOK
<1>2. TypeOK'
  <2>1. pc' \in [Processes -> Steps]
    BY <1>1 DEF LInv, TypeOK, Steps
  <2>2. check' \in [Processes -> Names]
    BY BoundsAssumption DEF Command, Kill, Goto, LInv, TypeOK, Names
  <2>3. /\ handle' \in [Processes -> {"closed", "temporary", "file", "gone"}]
        /\ commands' \in 0..MaxCommands
    BY BoundsAssumption DEF Command, Kill, Goto, LInv, TypeOK, disk, bounds
  <2>4. QED
    BY <1>1, <2>1, <2>2, <2>3 DEF LInv, TypeOK
<1>3. ServerInv'
  BY <1>1 DEF LInv, TypeOK, ServerInv, ServerStopped, Alive
<1>4. /\ \A q \in Processes : Saving(q)' => q # p /\ Saving(q) /\ pc'[q] = pc[q]
      /\ pc'[Launcher] = pc[Launcher] /\ check'[Launcher] = check[Launcher]
  BY <1>1 DEF LInv, TypeOK, Saving
<1>5. QED
  BY <1>1, <1>2, <1>3, <1>4, QuietKeeps

\* Signals, the server and the clock.
LEMMA EnvironmentKeeps ==
  ASSUME LInv, Signal \/ Drain \/ Heals \/ Log \/ Exits \/ Deadline
  PROVE  LInv'
<1> USE LauncherConstants
<1>1. UNCHANGED <<pc, check, temporary, file, handle, contended, runs, commands>>
  BY DEF Signal, Drain, Heals, Log, Exits, Deadline, disk, bounds
<1>2. TypeOK'
  BY <1>1 DEF LInv, TypeOK, Alive, Signal, Drain, Heals, Log, Exits, Deadline
<1>3. ServerInv'
  BY <1>1 DEF LInv, ServerInv, ServerStopped, Alive, Signal, Drain, Heals, Log, Exits, Deadline
<1>4. QED
  BY <1>1, <1>2, <1>3, QuietKeeps DEF Saving

\* A new container begins with nothing running and nothing checked.
LEMMA LauncherRestartKeeps ==
  ASSUME LInv, Restart
  PROVE  LInv'
<1> USE LauncherConstants
<1>1. /\ pc'[Launcher] = "configure" /\ check'[Launcher] = 0 /\ server' = "none"
      /\ \A p \in Processes : ~Saving(p)'
      /\ UNCHANGED <<temporary, file, contended>>
  BY DEF Restart, Saving
<1>2. TypeOK'
  <2>1. /\ pc' \in [Processes -> Steps] /\ check' \in [Processes -> Names]
        /\ handle' \in [Processes -> {"closed", "temporary", "file", "gone"}]
    BY DEF Restart, Steps
  <2>2. runs' \in 1..MaxRuns
    BY BoundsAssumption DEF Restart, LInv, TypeOK
  <2>3. QED
    BY <2>1, <2>2 DEF Restart, LInv, TypeOK
<1>3. ServerInv' /\ OwnerInv' /\ PassedInv' /\ ReceiptsWhole' /\ ReadyReceipts'
  BY <1>1 DEF LInv, ServerInv, ServerStopped, OwnerInv, PassedInv, ReceiptsWhole, ReadyReceipts
<1>4. QED
  BY <1>2, <1>3 DEF LInv

\* Every step keeps the invariant.
LEMMA LNext == LInv /\ [Next]_vars => LInv'
<1> SUFFICES ASSUME LInv, [Next]_vars PROVE LInv'
  OBVIOUS
<1>1. CASE Configure \/ Spawn \/ Poll \/ Health \/ Wait \/ Stop
  BY <1>1, ServeKeeps
<1>2. CASE \E p \in Processes : Ask(p)
  BY <1>2, AskKeeps
<1>3. CASE \E p \in Processes : Save(p)
  BY <1>3, OpenKeeps, StoreKeeps, ReplaceKeeps, FailsKeeps DEF Save
<1>4. CASE \E p \in Commands : Command(p) \/ Kill(p)
  BY <1>4, CommandKeeps
<1>5. CASE Signal \/ Drain \/ Heals \/ Log \/ Exits \/ Deadline
  BY <1>5, EnvironmentKeeps
<1>6. CASE Restart
  BY <1>6, LauncherRestartKeeps
<1>7. CASE Stopped \/ UNCHANGED vars
  BY <1>7 DEF Stopped, vars, serving, disk, bounds, LInv, TypeOK, ServerInv, ServerStopped, Alive,
     OwnerInv, Saving, PassedInv, ReceiptsWhole, ReadyReceipts
<1>8. QED
  BY <1>1, <1>2, <1>3, <1>4, <1>5, <1>6, <1>7, LauncherConstants DEF Next, Serve

\* The invariant of the launcher's files and of its server holds in every
\* state (boot.py:23-27, 88-134 and 137-197).
THEOREM LauncherInvariance == Spec => []LInv
  BY LInit, LNext, PTL DEF Spec

\* All variables keep their types.
THEOREM LauncherTypes == Spec => []TypeOK
<1>1. LInv => TypeOK
  BY DEF LInv
<1>2. QED
  BY <1>1, LauncherInvariance, PTL

\* A receipt is never torn unless two processes were saving it at once,
\* wherever the containers stopped (boot.py:23-27).
THEOREM ReceiptsAreWhole == Spec => []ReceiptsWhole
<1>1. LInv => ReceiptsWhole
  BY DEF LInv
<1>2. QED
  BY <1>1, LauncherInvariance, PTL

\* Ready means that this container's server passed every check, for any
\* number of checks (boot.py:88-134 and 193-194).
THEOREM ReadyIsEarned == Spec => []ReadyReceipts
<1>1. LInv => ReadyReceipts
  BY DEF LInv
<1>2. QED
  BY <1>1, LauncherInvariance, PTL

\* The launcher leaves no server behind that was not told to stop, whatever
\* failed and whenever (boot.py:174-176 and 183-197).
THEOREM ServerIsStopped == Spec => []ServerStopped
<1>1. LInv => ServerStopped
  BY DEF LInv, ServerInv
<1>2. QED
  BY <1>1, LauncherInvariance, PTL
=============================================================================
