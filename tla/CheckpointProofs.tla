------------------------- MODULE CheckpointProofs -------------------------
(***************************************************************************)
(* Proofs about Checkpoint, for any files, contents and revisions.  The    *)
(* argument: an identity names one content.  What was learnt of a file     *)
(* under an identity stays true as long as the file has it, because a      *)
(* write gives a larger one than any recorded before.                      *)
(***************************************************************************)
EXTENDS Checkpoint, SequenceTheorems, TLAPS

\* No recorded identity lies in the future.
PastInv ==
  \A f \in Files :
    /\ before[f] <= disk[f].identity
    /\ receipt # None => receipt.files[f].identity <= disk[f].identity
    /\ cached[f] # None => cached[f].identity <= disk[f].identity
    /\ entry[f] # None => entry[f].identity <= disk[f].identity

\* An entry with the identity of its file holds the digest of its content.
Vouches(e, f) == e.identity = disk[f].identity => disk[f].content = e.digest

ReceiptInv ==
  receipt # None => \A f \in Files :
    receipt.files[f].digest = Expected[receipt.revision][f] /\ Vouches(receipt.files[f], f)

EntriesInv ==
  \A f \in Files :
    /\ cached[f] # None => Vouches(cached[f], f)
    /\ entry[f] # None => entry[f].digest = Wanted(f) /\ Vouches(entry[f], f)
    /\ pc[f] = "verified" => entry[f] # None

\* What has been hashed is a prefix of the file, unless the file has changed.
HashInv ==
  \A f \in Files : before[f] = disk[f].identity =>
    /\ pc[f] = "hash" =>
         /\ Len(hashed[f]) <= Len(disk[f].content)
         /\ \A i \in 1..Len(hashed[f]) : hashed[f][i] = disk[f].content[i]
    /\ pc[f] = "compare" => disk[f].content = Wanted(f)

CInv == TypeOK /\ PastInv /\ ReceiptInv /\ EntriesInv /\ HashInv

\* A file's content and the content its revision pins are sequences of blocks.
LEMMA ContentTypes ==
  ASSUME TypeOK, NEW f \in Files
  PROVE  /\ Wanted(f) \in Contents /\ Wanted(f) \in Seq(Blocks)
         /\ disk[f].content \in Contents /\ disk[f].content \in Seq(Blocks)
         /\ disk[f].identity \in Nat
  BY ContentsAssumption, ExpectedAssumption DEF TypeOK, Wanted

\* The invariant holds when the first container starts.
LEMMA CInit == Init => CInv
<1> SUFFICES ASSUME Init PROVE CInv
  OBVIOUS
<1>1. TypeOK
  BY DEF Init, TypeOK, NoEntry
<1>2. PastInv /\ ReceiptInv /\ EntriesInv /\ HashInv
  BY DEF Init, PastInv, ReceiptInv, EntriesInv, HashInv, NoEntry
<1>3. QED
  BY <1>1, <1>2 DEF CInv

\* Files that change get a new identity: what foreign writes and the
\* download have in common.
LEMMA DiskKeeps ==
  ASSUME CInv, disk' \in [Files -> [content : Contents, identity : Nat]],
         \A f \in Files : disk'[f] = disk[f] \/ disk'[f].identity = disk[f].identity + 1,
         UNCHANGED <<receipt, before>>
  PROVE  /\ \A f \in Files : before'[f] <= disk'[f].identity
         /\ receipt' # None => \A f \in Files : receipt'.files[f].identity <= disk'[f].identity
         /\ ReceiptInv'
         /\ \A f \in Files : \A e \in Entry :
              e.identity <= disk[f].identity =>
                e.identity <= disk'[f].identity /\ (Vouches(e, f) => Vouches(e, f)')
<1>1. \A f \in Files : disk[f].identity \in Nat /\ before[f] \in Nat
  BY DEF CInv, TypeOK
<1>2. receipt # None => \A f \in Files : receipt.files[f] \in Entry /\ receipt.files[f].identity \in Nat
  BY DEF CInv, TypeOK, Entry
<1>3. \A f \in Files : \A e \in Entry :
        e.identity <= disk[f].identity =>
          e.identity <= disk'[f].identity /\ (Vouches(e, f) => Vouches(e, f)')
  BY <1>1 DEF Entry, Vouches
<1>4. /\ \A f \in Files : before'[f] <= disk'[f].identity
      /\ receipt' # None => \A f \in Files : receipt'.files[f].identity <= disk'[f].identity
  BY <1>1, <1>2 DEF CInv, PastInv
<1>5. ReceiptInv'
  BY <1>2, <1>3 DEF CInv, ReceiptInv, PastInv
<1>6. QED
  BY <1>3, <1>4, <1>5

\* A foreign write keeps the invariant.
LEMMA WriteKeeps ==
  ASSUME CInv, NEW f \in Files, NEW content \in Contents, Write(f, content)
  PROVE  CInv'
<1>1. /\ disk' \in [Files -> [content : Contents, identity : Nat]]
      /\ \A g \in Files : disk'[g] = disk[g] \/ disk'[g].identity = disk[g].identity + 1
      /\ UNCHANGED <<receipt, revision, phase, cached, progress>>
  BY DEF Write, Changed, CInv, TypeOK
<1>2. TypeOK'
  BY <1>1 DEF CInv, TypeOK, progress
<1>3. /\ \A g \in Files : before'[g] <= disk'[g].identity
      /\ receipt' # None => \A g \in Files : receipt'.files[g].identity <= disk'[g].identity
      /\ ReceiptInv'
      /\ \A g \in Files : \A e \in Entry :
           e.identity <= disk[g].identity =>
             e.identity <= disk'[g].identity /\ (Vouches(e, g) => Vouches(e, g)')
  BY <1>1, DiskKeeps DEF progress
<1>4. \A g \in Files : cached[g] \in Entry \cup {None} /\ entry[g] \in Entry \cup {None}
  BY DEF CInv, TypeOK
<1>5. PastInv'
  BY <1>1, <1>3, <1>4 DEF CInv, PastInv, progress
<1>6. EntriesInv'
  BY <1>1, <1>3, <1>4 DEF CInv, PastInv, EntriesInv, Wanted, progress
<1>7. HashInv'
  <2>1. \A g \in Files : before[g] \in Nat /\ disk[g].identity \in Nat /\ before[g] <= disk[g].identity
    BY DEF CInv, TypeOK, PastInv
  <2>2. \A g \in Files : before'[g] = disk'[g].identity => disk'[g] = disk[g]
    BY <1>1, <2>1 DEF progress
  <2>3. QED
    BY <1>1, <2>2 DEF CInv, HashInv, Wanted, progress
<1>8. QED
  BY <1>2, <1>3, <1>5, <1>6, <1>7 DEF CInv

\* The download, and reading the receipt, keep it.
LEMMA DownloadKeeps ==
  ASSUME CInv, NEW replaced \in SUBSET Files, Download(replaced)
  PROVE  CInv'
<1>1. \A f \in Files : Wanted(f) \in Contents
  BY ContentTypes DEF CInv
<1>2. /\ disk' \in [Files -> [content : Contents, identity : Nat]]
      /\ \A f \in Files : disk'[f] = disk[f] \/ disk'[f].identity = disk[f].identity + 1
      /\ UNCHANGED <<receipt, revision, before, hashed>>
      /\ phase' = "verify" /\ pc' = [f \in Files |-> "stat"] /\ entry' = [f \in Files |-> None]
  BY <1>1 DEF Download, Changed, CInv, TypeOK, NoEntry
<1>3. \/ receipt # None /\ cached' = receipt.files
      \/ cached' = [f \in Files |-> None]
  BY DEF Download, NoEntry
<1>4. TypeOK'
  BY <1>2, <1>3 DEF CInv, TypeOK
<1>5. /\ \A f \in Files : before'[f] <= disk'[f].identity
      /\ receipt' # None => \A f \in Files : receipt'.files[f].identity <= disk'[f].identity
      /\ ReceiptInv'
  BY <1>2, DiskKeeps
<1>6. PastInv'
  BY <1>2, <1>3, <1>5 DEF PastInv
<1>7. EntriesInv'
  BY <1>2, <1>3, <1>5 DEF EntriesInv, ReceiptInv
<1>8. HashInv'
  BY <1>2 DEF HashInv
<1>9. QED
  BY <1>4, <1>5, <1>6, <1>7, <1>8 DEF CInv

\* A thread's step changes what is known of its own file only.
LEMMA VerifyKeeps ==
  ASSUME CInv, NEW f \in Files, Stat(f) \/ Hash(f) \/ Compare(f) \/ VerifyFails(f)
  PROVE  CInv'
<1>1. /\ UNCHANGED <<disk, receipt, revision, phase, cached>>
      /\ \A g \in Files \ {f} :
           /\ pc'[g] = pc[g] /\ before'[g] = before[g]
           /\ hashed'[g] = hashed[g] /\ entry'[g] = entry[g]
  BY DEF Stat, Hash, Compare, VerifyFails, Goto, CInv, TypeOK
<1>2. /\ Wanted(f) \in Contents /\ Wanted(f) \in Seq(Blocks) /\ disk[f].identity \in Nat
      /\ disk[f].content \in Seq(Blocks) /\ before[f] \in Nat
      /\ hashed[f] \in Seq(Blocks) /\ cached[f] \in Entry \cup {None}
  BY ContentTypes DEF CInv, TypeOK
<1>3. /\ pc' = [pc EXCEPT ![f] = pc'[f]] /\ before' = [before EXCEPT ![f] = before'[f]]
      /\ hashed' = [hashed EXCEPT ![f] = hashed'[f]] /\ entry' = [entry EXCEPT ![f] = entry'[f]]
  BY DEF Stat, Hash, Compare, VerifyFails, Goto, CInv, TypeOK
<1> DEFINE OwnTypes ==
      /\ pc'[f] \in {"stat", "hash", "compare", "verified", "failed"}
      /\ before'[f] \in Nat /\ before'[f] <= disk[f].identity
      /\ hashed'[f] \in Seq(Blocks)
      /\ entry'[f] \in Entry \cup {None}
    OwnEntry ==
      /\ entry'[f] # None => /\ entry'[f].identity <= disk[f].identity
                             /\ entry'[f].digest = Wanted(f) /\ Vouches(entry'[f], f)
      /\ pc'[f] = "verified" => entry'[f] # None
    OwnHash ==
      before'[f] = disk[f].identity =>
           /\ pc'[f] = "hash" =>
                /\ Len(hashed'[f]) <= Len(disk[f].content)
                /\ \A i \in 1..Len(hashed'[f]) : hashed'[f][i] = disk[f].content[i]
           /\ pc'[f] = "compare" => disk[f].content = Wanted(f)
    Own == OwnTypes /\ OwnEntry /\ OwnHash
<1>4. /\ entry[f] \in Entry \cup {None} /\ before[f] <= disk[f].identity
      /\ entry[f] # None => /\ entry[f].identity <= disk[f].identity
                            /\ entry[f].digest = Wanted(f) /\ Vouches(entry[f], f)
  BY DEF CInv, TypeOK, PastInv, EntriesInv
<1>5. ASSUME Stat(f) PROVE Own
  <2>1. /\ before'[f] = disk[f].identity /\ hashed'[f] = << >>
        /\ pc'[f] \in {"failed", "verified", "hash"}
    BY <1>5 DEF Stat, Goto, CInv, TypeOK
  <2>2. /\ pc'[f] = "verified" => entry'[f] = cached[f] /\ Matches(f)
        /\ pc'[f] # "verified" => entry'[f] = entry[f]
    BY <1>5 DEF Stat, Goto, CInv, TypeOK
  <2>3. cached[f] # None => cached[f].identity <= disk[f].identity /\ Vouches(cached[f], f)
    BY DEF CInv, PastInv, EntriesInv
  <2>4. << >> \in Seq(Blocks) /\ Len(<< >>) = 0
    OBVIOUS
  <2>5. QED
    <3>1. OwnTypes
      BY <1>2, <1>4, <2>1, <2>2, <2>4
    <3>2. OwnEntry
      BY <1>4, <2>1, <2>2, <2>3 DEF Matches
    <3>3. OwnHash
      BY <1>2, <2>1, <2>4
    <3>4. QED
      BY <3>1, <3>2, <3>3
<1>6. ASSUME Hash(f) PROVE Own
  <2>1. pc[f] = "hash" /\ before'[f] = before[f] /\ entry'[f] = entry[f]
    BY <1>6 DEF Hash, Goto
  <2>2. CASE Len(hashed[f]) < Len(disk[f].content)
    <3>1. /\ pc'[f] = "hash"
          /\ hashed'[f] = Append(hashed[f], disk[f].content[Len(hashed[f]) + 1])
      BY <1>6, <2>2 DEF Hash, Goto, CInv, TypeOK
    <3>2. disk[f].content[Len(hashed[f]) + 1] \in Blocks
      BY <1>2, <2>2
    <3>3. /\ hashed'[f] \in Seq(Blocks) /\ Len(hashed'[f]) = Len(hashed[f]) + 1
          /\ \A i \in 1..Len(hashed[f]) : hashed'[f][i] = hashed[f][i]
          /\ hashed'[f][Len(hashed[f]) + 1] = disk[f].content[Len(hashed[f]) + 1]
      BY <1>2, <3>1, <3>2
    <3>4. before[f] = disk[f].identity =>
            \A i \in 1..Len(hashed'[f]) : hashed'[f][i] = disk[f].content[i]
      <4>1. SUFFICES ASSUME before[f] = disk[f].identity, NEW i \in 1..Len(hashed'[f])
                     PROVE  hashed'[f][i] = disk[f].content[i]
        OBVIOUS
      <4>2. \A k \in 1..Len(hashed[f]) : hashed[f][k] = disk[f].content[k]
        BY <2>1, <4>1 DEF CInv, HashInv
      <4>3. i \in 1..Len(hashed[f]) \/ i = Len(hashed[f]) + 1
        BY <1>2, <3>3
      <4>4. QED
        BY <3>3, <4>2, <4>3
    <3>5. Len(hashed'[f]) <= Len(disk[f].content)
      BY <1>2, <2>2, <3>3
    <3>6. QED
      <4>1. OwnTypes
        BY <1>2, <1>4, <2>1, <3>1, <3>3
      <4>2. OwnEntry
        BY <1>4, <2>1, <3>1
      <4>3. OwnHash
        BY <2>1, <3>1, <3>4, <3>5
      <4>4. QED
        BY <4>1, <4>2, <4>3
  <2>3. CASE ~(Len(hashed[f]) < Len(disk[f].content))
    <3>1. /\ hashed'[f] = hashed[f] /\ pc'[f] \in {"compare", "failed"}
          /\ pc'[f] = "compare" => hashed[f] = Wanted(f)
      BY <1>6, <2>3 DEF Hash, Goto, CInv, TypeOK
    <3>2. before[f] = disk[f].identity =>
            /\ Len(hashed[f]) = Len(disk[f].content)
            /\ \A i \in 1..Len(hashed[f]) : hashed[f][i] = disk[f].content[i]
      BY <1>2, <2>1, <2>3 DEF CInv, HashInv
    <3>3. before[f] = disk[f].identity => hashed[f] = disk[f].content
      BY <1>2, <3>2, SeqEqual
    <3>4. QED
      <4>1. OwnTypes
        BY <1>2, <1>4, <2>1, <3>1
      <4>2. OwnEntry
        BY <1>4, <2>1, <3>1
      <4>3. OwnHash
        BY <2>1, <3>1, <3>3
      <4>4. QED
        BY <4>1, <4>2, <4>3
  <2>4. QED
    BY <2>2, <2>3
<1>7. ASSUME Compare(f) PROVE Own
  <2>1. /\ pc[f] = "compare" /\ before'[f] = before[f] /\ hashed'[f] = hashed[f]
        /\ \/ pc'[f] = "failed" /\ entry'[f] = entry[f]
           \/ /\ before[f] = disk[f].identity /\ pc'[f] = "verified"
              /\ entry'[f] = [digest |-> Wanted(f), identity |-> before[f]]
    BY <1>7 DEF Compare, Goto, CInv, TypeOK
  <2>2. before[f] = disk[f].identity => disk[f].content = Wanted(f)
    BY <2>1 DEF CInv, HashInv
  <2>3. [digest |-> Wanted(f), identity |-> before[f]] \in Entry
    BY <1>2 DEF Entry
  <2>4. None \notin Entry
    BY NoneAssumption DEF Entry
  <2>5. QED
    <3>1. OwnTypes
      BY <1>2, <1>4, <2>1, <2>3
    <3>2. OwnEntry
      BY <1>2, <1>4, <2>1, <2>2, <2>3, <2>4 DEF Vouches
    <3>3. OwnHash
      BY <2>1
    <3>4. QED
      BY <3>1, <3>2, <3>3
<1>8. ASSUME VerifyFails(f) PROVE Own
  <2>1. /\ pc'[f] = "failed" /\ before'[f] = before[f]
        /\ hashed'[f] = hashed[f] /\ entry'[f] = entry[f]
    BY <1>8 DEF VerifyFails, Goto, CInv, TypeOK
  <2>2. QED
    BY <1>2, <1>4, <2>1
<1>9. Own
  BY <1>5, <1>6, <1>7, <1>8
<1>10. TypeOK'
  <2>1. OwnTypes
    BY <1>9
  <2>2. pc' \in [Files -> {"waiting", "stat", "hash", "compare", "verified", "failed"}]
    BY <1>3, <2>1 DEF CInv, TypeOK
  <2>3. before' \in [Files -> Nat]
    BY <1>3, <2>1 DEF CInv, TypeOK
  <2>4. hashed' \in [Files -> Seq(Blocks)]
    BY <1>3, <2>1 DEF CInv, TypeOK
  <2>5. entry' \in [Files -> Entry \cup {None}]
    BY <1>3, <2>1 DEF CInv, TypeOK
  <2>6. QED
    BY <1>1, <2>2, <2>3, <2>4, <2>5 DEF CInv, TypeOK
<1>11. PastInv' /\ ReceiptInv'
  BY <1>1, <1>9 DEF CInv, PastInv, ReceiptInv, Vouches
<1>12. EntriesInv'
  BY <1>1, <1>9 DEF CInv, EntriesInv, Vouches, Wanted
<1>13. HashInv'
  BY <1>1, <1>9 DEF CInv, HashInv, Wanted
<1>14. QED
  BY <1>10, <1>11, <1>12, <1>13 DEF CInv

\* Saving the receipt, or giving up, keeps it.
LEMMA FinishKeeps ==
  ASSUME CInv, Finish
  PROVE  CInv'
<1>1. UNCHANGED <<disk, revision, cached, pc, before, hashed, entry>>
  BY DEF Finish, progress
<1>2. \/ receipt' = receipt /\ phase' = "failed"
      \/ /\ phase' = "serve" /\ receipt' = [revision |-> revision, files |-> entry]
         /\ \A f \in Files : entry[f] # None
  BY DEF Finish, CInv, EntriesInv
<1>3. TypeOK'
  BY <1>1, <1>2 DEF CInv, TypeOK
<1>4. PastInv' /\ ReceiptInv'
  BY <1>1, <1>2 DEF CInv, PastInv, ReceiptInv, EntriesInv, Vouches, Wanted
<1>5. EntriesInv' /\ HashInv'
  BY <1>1 DEF CInv, EntriesInv, HashInv, Vouches, Wanted
<1>6. QED
  BY <1>3, <1>4, <1>5 DEF CInv

\* Stopping anywhere and starting another image keeps it.
LEMMA RestartKeeps ==
  ASSUME CInv, Restart
  PROVE  CInv'
  BY DEF Restart, CInv, TypeOK, PastInv, ReceiptInv, EntriesInv, HashInv, Vouches, NoEntry

\* Every step keeps it.
LEMMA CNext == CInv /\ [Next]_vars => CInv'
<1> SUFFICES ASSUME CInv, [Next]_vars PROVE CInv'
  OBVIOUS
<1>1. CASE \E f \in Files, content \in Contents : Write(f, content)
  BY <1>1, WriteKeeps
<1>2. CASE \E replaced \in SUBSET Files : Download(replaced)
  BY <1>2, DownloadKeeps
<1>3. CASE \E f \in Files : Stat(f) \/ Hash(f) \/ Compare(f) \/ VerifyFails(f)
  BY <1>3, VerifyKeeps
<1>4. CASE Finish
  BY <1>4, FinishKeeps
<1>5. CASE Restart
  BY <1>5, RestartKeeps
<1>6. CASE MetadataFails \/ Stopped \/ UNCHANGED vars
  BY <1>6 DEF MetadataFails, Stopped, vars, progress, CInv, TypeOK, PastInv, ReceiptInv, EntriesInv, HashInv,
     Vouches, Wanted
<1>7. QED
  BY <1>1, <1>2, <1>3, <1>4, <1>5, <1>6 DEF Next

\* The invariant of verification holds in every state (boot.py:29-66).
THEOREM CheckpointInvariance == Spec => []CInv
  BY CInit, CNext, PTL DEF Spec

\* All variables keep their types.
THEOREM CheckpointTypes == Spec => []TypeOK
<1>1. CInv => TypeOK
  BY DEF CInv
<1>2. QED
  BY <1>1, CheckpointInvariance, PTL

\* The receipt vouches for nothing it should not, for any number of files,
\* writes and containers (boot.py:45-60 and 66).
THEOREM ReceiptsTrue == Spec => []ReceiptTrue
<1>1. CInv => ReceiptTrue
  BY DEF CInv, ReceiptInv, ReceiptTrue, Vouches
<1>2. QED
  BY <1>1, CheckpointInvariance, PTL

\* Whatever is accepted has the pinned content at that moment (boot.py:43-60).
THEOREM Acceptance == Spec => AcceptedExact
<1> DEFINE Accept(f) ==
      pc[f] # "verified" /\ pc'[f] = "verified" => disk[f].content = Wanted(f)
<1>1. ASSUME CInv, [Next]_vars, NEW f \in Files
      PROVE  Accept(f)
  <2>1. SUFFICES ASSUME pc[f] # "verified", pc'[f] = "verified"
                 PROVE  disk[f].content = Wanted(f)
    OBVIOUS
  <2>2. \E g \in Files : Stat(g) \/ Compare(g)
    <3>1. ~(\E g \in Files, content \in Contents : Write(g, content)) /\ ~Finish
      BY <2>1 DEF Write, Finish, progress
    <3>2. ~(\E replaced \in SUBSET Files : Download(replaced)) /\ ~Restart
      BY <2>1 DEF Download, Restart
    <3>3. ~(\E g \in Files : Hash(g) \/ VerifyFails(g))
      BY <1>1, <2>1 DEF Hash, VerifyFails, Goto, CInv, TypeOK
    <3>4. ~MetadataFails /\ ~Stopped /\ ~UNCHANGED vars
      BY <2>1 DEF MetadataFails, Stopped, vars, progress
    <3>5. QED
      BY <1>1, <3>1, <3>2, <3>3, <3>4 DEF Next
  <2>3. PICK g \in Files : Stat(g) \/ Compare(g)
    BY <2>2
  <2>4. g = f
    BY <1>1, <2>1, <2>3 DEF Stat, Compare, Goto, CInv, TypeOK
  <2>5. CASE Stat(f)
    <3>1. Matches(f)
      BY <1>1, <2>1, <2>5 DEF Stat, Goto, CInv, TypeOK
    <3>2. QED
      BY <1>1, <3>1 DEF Matches, CInv, EntriesInv, Vouches
  <2>6. CASE Compare(f)
    <3>1. pc[f] = "compare" /\ disk[f].identity = before[f]
      BY <1>1, <2>1, <2>6 DEF Compare, Goto, CInv, TypeOK
    <3>2. QED
      BY <1>1, <3>1 DEF CInv, HashInv
  <2>7. QED
    BY <2>3, <2>4, <2>5, <2>6
<1>2. CInv /\ [Next]_vars => [\A f \in Files : Accept(f)]_vars
  BY <1>1
<1>3. QED
  BY <1>2, CheckpointInvariance, PTL DEF Spec, AcceptedExact
=============================================================================
