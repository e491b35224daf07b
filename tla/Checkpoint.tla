---------------------------- MODULE Checkpoint ----------------------------
(***************************************************************************)
(* boot.py, prepare(): the pinned checkpoint is downloaded and every file  *)
(* is verified by its digest before the server starts.  Hashing takes      *)
(* hours, so a receipt of what was verified outlives the container: a file *)
(* whose size, modification time and inode are those of its receipt is not *)
(* hashed again.  Files are hashed by several threads, block by block,     *)
(* while other programs may write to the same directory, and the container *)
(* may stop at any step.                                                   *)
(*                                                                         *)
(* A file's content is a sequence of blocks; a digest is represented by    *)
(* the sequence it is the digest of.  Size, time and inode together are an *)
(* identity; the code relies on no write leaving all three as they were,   *)
(* and so does the model: each write gives an identity never used before.  *)
(***************************************************************************)
EXTENDS Integers, Sequences

CONSTANTS
  Files,      \* files of the checkpoint
  Blocks,     \* what a block can hold
  Contents,   \* contents a file can have, right or wrong
  Revisions,  \* REVISION of the images that run on this directory
  Expected,   \* revision -> file -> the content its digest stands for
  Index,      \* the file that names the files holding the weights
  Indexes,    \* contents that, as the index, name files of the checkpoint only
  None,       \* no receipt
  MaxWrites, MaxRuns  \* bounds on foreign writes and on containers

ASSUME ContentsAssumption == Contents \subseteq Seq(Blocks)
ASSUME ExpectedAssumption == Expected \in [Revisions -> [Files -> Contents]]
ASSUME IndexAssumption == Index \in Files /\ Indexes \subseteq Contents
ASSUME NoneAssumption == None \notin [digest : Contents, identity : Nat]
ASSUME BoundsAssumption == MaxWrites \in Nat /\ MaxRuns \in Nat

VARIABLES
  disk,      \* file -> [content, identity]
  receipt,   \* verification.json: [revision, files], or None
  revision,  \* REVISION of the image now running
  phase,     \* "download", "verify", "serve" or "failed"
  cached,    \* file -> its entry in the receipt as read, or None
  pc,        \* file -> step of its verify()
  before,    \* file -> its first stat
  hashed,    \* file -> the blocks fed to the digest
  entry,     \* file -> what verify() returned
  writes, runs  \* foreign writes and containers so far

progress == <<pc, before, hashed, entry>>
vars == <<disk, receipt, revision, phase, cached, progress, writes, runs>>

Wanted(f) == Expected[revision][f]
Entry == [digest : Contents, identity : Nat]
NoEntry == [f \in Files |-> None]
Changed(f, content) == [content |-> content, identity |-> disk[f].identity + 1]

Init ==
  /\ disk \in [Files -> [content : Contents, identity : {0}]]
  /\ receipt = None
  /\ revision \in Revisions
  /\ phase = "download"
  /\ cached = NoEntry
  /\ pc = [f \in Files |-> "waiting"] /\ entry = NoEntry
  /\ before = [f \in Files |-> 0] /\ hashed = [f \in Files |-> << >>]
  /\ writes = 0 /\ runs = 1

\* Somebody writes to a file of the directory.
Write(f, content) ==
  /\ writes < MaxWrites /\ content # disk[f].content
  /\ disk' = [disk EXCEPT ![f] = Changed(f, content)]
  /\ writes' = writes + 1
  /\ UNCHANGED <<receipt, revision, phase, cached, progress, runs>>

\* snapshot_download (external) replaces the files it finds missing or old;
\* it does not look at the content of the others.  Then the receipt is read,
\* and used when it is for this revision.
Download(replaced) ==
  /\ phase = "download" /\ phase' = "verify"
  /\ disk' = [f \in Files |-> IF f \in replaced THEN Changed(f, Wanted(f)) ELSE disk[f]]
  /\ cached' = IF receipt # None /\ receipt.revision = revision THEN receipt.files ELSE NoEntry
  /\ pc' = [f \in Files |-> "stat"] /\ entry' = NoEntry
  /\ UNCHANGED <<receipt, revision, before, hashed, writes, runs>>

\* The metadata cannot be fetched or is of another revision, the download
\* fails, or the receipt cannot be read.
MetadataFails ==
  /\ phase = "download" /\ phase' = "failed"
  /\ UNCHANGED <<disk, receipt, revision, cached, progress, writes, runs>>

\* A step of verify(f).  A failed assertion fails prepare() in the end.
Goto(f, from, to) ==
  /\ phase = "verify" /\ pc[f] = from
  /\ pc' = [pc EXCEPT ![f] = to]
  /\ UNCHANGED <<disk, receipt, revision, phase, cached, writes, runs>>

\* The path leads out of the directory, or the file is gone: a stat, the
\* opening or a read raises.
VerifyFails(f) ==
  /\ \E from \in {"stat", "hash", "compare"} : Goto(f, from, "failed")
  /\ UNCHANGED <<before, hashed, entry>>

\* The receipt's entry for f still describes the file.
Matches_DigestOnly(f) ==  \* mutation: size, time and inode are not compared
  cached[f] # None /\ cached[f].digest = Wanted(f)
Matches(f) ==
  cached[f] # None /\ cached[f].digest = Wanted(f) /\ cached[f].identity = disk[f].identity

\* The first stat: a wrong size fails, a file known from the receipt is done.
Stat(f) ==
  /\ before' = [before EXCEPT ![f] = disk[f].identity]
  /\ hashed' = [hashed EXCEPT ![f] = << >>]
  /\ \/ /\ Len(disk[f].content) # Len(Wanted(f))
        /\ Goto(f, "stat", "failed")
        /\ UNCHANGED entry
     \/ /\ Len(disk[f].content) = Len(Wanted(f)) /\ Matches(f)
        /\ Goto(f, "stat", "verified")
        /\ entry' = [entry EXCEPT ![f] = cached[f]]
     \/ /\ Len(disk[f].content) = Len(Wanted(f)) /\ ~Matches(f)
        /\ Goto(f, "stat", "hash")
        /\ UNCHANGED entry

\* The next block, or the end of the file.
Hash(f) ==
  /\ IF Len(hashed[f]) < Len(disk[f].content)
     THEN /\ Goto(f, "hash", "hash")
          /\ hashed' = [hashed EXCEPT ![f] = Append(@, disk[f].content[Len(@) + 1])]
     ELSE /\ Goto(f, "hash", IF hashed[f] = Wanted(f) THEN "compare" ELSE "failed")
          /\ UNCHANGED hashed
  /\ UNCHANGED <<before, entry>>

\* The second stat: the file must not have changed while it was hashed.
Compare_NoSecondStat(f) ==  \* mutation: it is accepted as it was
  /\ Goto(f, "compare", "verified")
  /\ entry' = [entry EXCEPT ![f] = [digest |-> Wanted(f), identity |-> before[f]]]
  /\ UNCHANGED <<before, hashed>>
Compare_LastStat(f) ==  \* mutation: the identity is taken when the hash is done
  /\ Goto(f, "compare", "verified")
  /\ entry' = [entry EXCEPT ![f] = [digest |-> Wanted(f), identity |-> disk[f].identity]]
  /\ UNCHANGED <<before, hashed>>
Compare(f) ==
  /\ \/ /\ disk[f].identity = before[f]
        /\ Goto(f, "compare", "verified")
        /\ entry' = [entry EXCEPT ![f] = [digest |-> Wanted(f), identity |-> before[f]]]
     \/ /\ disk[f].identity # before[f]
        /\ Goto(f, "compare", "failed")
        /\ UNCHANGED entry
  /\ UNCHANGED <<before, hashed>>

\* No thread is at work; after a failure those not begun are cancelled.  The
\* index is read once more; the receipt is saved only when every file was
\* verified and the index names no other files.
Finish_Anyway ==  \* mutation: a receipt even when a file failed
  /\ phase = "verify" /\ \A f \in Files : pc[f] \in {"verified", "failed"}
  /\ receipt' = [revision |-> revision, files |-> entry] /\ phase' = "serve"
  /\ UNCHANGED <<disk, revision, cached, progress, writes, runs>>
Finish ==
  /\ phase = "verify" /\ \A f \in Files : pc[f] \in {"stat", "verified", "failed"}
  /\ \/ /\ \A f \in Files : pc[f] = "verified"
        /\ disk[Index].content \in Indexes
        /\ receipt' = [revision |-> revision, files |-> entry] /\ phase' = "serve"
     \/ /\ \/ \E f \in Files : pc[f] = "failed"
           \/ (\A f \in Files : pc[f] = "verified") /\ disk[Index].content \notin Indexes
        /\ receipt' = receipt /\ phase' = "failed"
  /\ UNCHANGED <<disk, revision, cached, progress, writes, runs>>

\* The container ends at whatever step, and an image, perhaps with another
\* revision, is started on the same directories.
Restart ==
  /\ runs < MaxRuns
  /\ runs' = runs + 1
  /\ revision' \in Revisions
  /\ phase' = "download" /\ cached' = NoEntry
  /\ pc' = [f \in Files |-> "waiting"] /\ entry' = NoEntry
  /\ UNCHANGED <<disk, receipt, before, hashed, writes>>

\* The bounds are reached.
Stopped ==
  /\ phase \in {"serve", "failed"} /\ runs = MaxRuns
  /\ UNCHANGED vars

Next ==
  \/ \E f \in Files, content \in Contents : Write(f, content)
  \/ \E replaced \in SUBSET Files : Download(replaced)
  \/ MetadataFails
  \/ \E f \in Files : Stat(f) \/ Hash(f) \/ Compare(f) \/ VerifyFails(f)
  \/ Finish
  \/ Restart
  \/ Stopped

Spec == Init /\ [][Next]_vars
-----------------------------------------------------------------------------
(* Properties                                                              *)

TypeOK ==
  /\ disk \in [Files -> [content : Contents, identity : Nat]]
  /\ receipt # None =>
       receipt.revision \in Revisions /\ receipt.files \in [Files -> Entry]
  /\ revision \in Revisions
  /\ phase \in {"download", "verify", "serve", "failed"}
  /\ cached \in [Files -> Entry \cup {None}] /\ entry \in [Files -> Entry \cup {None}]
  /\ pc \in [Files -> {"waiting", "stat", "hash", "compare", "verified", "failed"}]
  /\ before \in [Files -> Nat] /\ hashed \in [Files -> Seq(Blocks)]

\* The receipt never vouches for a content nobody hashed: a file that still
\* has the identity of its entry has the content the entry's revision pins,
\* through foreign writes, crashes and new images (boot.py:45-60 and 66).
ReceiptTrue ==
  receipt # None =>
    \A f \in Files :
      receipt.files[f].identity = disk[f].identity
        => disk[f].content = Expected[receipt.revision][f]

\* At the moment verify() accepts a file, the file has, in full, the content
\* of the pinned revision, although it was read block by block while others
\* could write to it (boot.py:43-60).
AcceptedExact ==
  [][\A f \in Files :
       pc[f] # "verified" /\ pc'[f] = "verified" => disk[f].content = Wanted(f)]_vars
=============================================================================
