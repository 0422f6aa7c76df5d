------------------------------ MODULE Seqlock -------------------------------
(***************************************************************************)
(* The version counter around a group of atomics that lets one thread read *)
(* a consistent group while another rewrites it, without a lock:           *)
(*   ThreeBandEq::Band       set() on the control thread, get() on the     *)
(*                           audio thread (engine/include/gitar/eq.hpp);   *)
(*   SpectrumAnalyzer        publish() on the audio thread, bands_db() on  *)
(*                           the control thread (spectrum_analyzer.hpp).   *)
(*                                                                         *)
(* The cells hold the number of the update that stored them.  A store      *)
(* takes place when it becomes visible to the reader.  The final, even     *)
(* version is a release store, which no earlier store falls behind.  The   *)
(* odd one is too, but that does not keep the relaxed stores of the cells  *)
(* behind it: C++ lets them become visible first.  (On x86 they do not.)   *)
(*                                                                         *)
(* Definitions are named so that a module can extend SpscRing as well.     *)
(***************************************************************************)
EXTENDS Integers, FiniteSets

CONSTANTS Cells,           \* the coefficients of a band, or the bands
          MaxUpdates       \* bound: updates in a behaviour

ASSUME SeqlockAssumption ==
  /\ IsFiniteSet(Cells) /\ Cells # {}
  /\ Cells \cap {"odd", "even"} = {}
  /\ MaxUpdates \in Nat

VARIABLES version,   \* version_
          cell,      \* b0_ .. a2_, or bands_
          updates,   \* number of the update last begun
          pending,   \* stores of that update not visible yet
          overtaken, \* has a cell's store ever become visible too early?
          rPc,       \* where the reader is
          rVersion,  \* the version it loaded first
          unread,    \* cells it has still to load
          got,       \* what it loaded; its result when rPc is "idle"
          floor      \* updates that were complete when the read began

wVars == <<version, cell, updates, pending, overtaken>>
rVars == <<rPc, rVersion, unread, got, floor>>
lockVars == <<wVars, rVars>>

LockInit ==
  /\ version = 0 /\ cell = [c \in Cells |-> 0] /\ updates = 0 /\ pending = {}
  /\ overtaken = FALSE
  /\ rPc = "idle" /\ rVersion = 0 /\ unread = {}
  /\ got = [c \in Cells |-> 0] /\ floor = 0

-----------------------------------------------------------------------------
(* The writer.                                                             *)

UpdateBegin ==
  /\ pending = {} /\ updates < MaxUpdates
  /\ updates' = updates + 1
  /\ pending' = Cells \cup {"odd", "even"}
  /\ UNCHANGED <<version, cell, overtaken, rVars>>

StoreOdd ==
  /\ "odd" \in pending
  /\ version' = version + 1
  /\ pending' = pending \ {"odd"}
  /\ UNCHANGED <<cell, updates, overtaken, rVars>>

StoreCell(c) ==
  /\ c \in pending
  /\ cell' = [cell EXCEPT ![c] = updates]
  /\ pending' = pending \ {c}
  /\ overtaken' = (overtaken \/ "odd" \in pending)
  /\ UNCHANGED <<version, updates, rVars>>

\* The version is left odd.
StoreEven_Forgotten ==
  /\ pending = {"even"}
  /\ pending' = {}
  /\ UNCHANGED <<version, cell, updates, overtaken, rVars>>

\* The update is complete.
StoreEven ==
  /\ pending = {"even"}
  /\ version' = version + 1
  /\ pending' = {}
  /\ UNCHANGED <<cell, updates, overtaken, rVars>>

-----------------------------------------------------------------------------
(* The reader.                                                             *)

ReadBegin ==
  /\ rPc = "idle"
  /\ rPc' = "version"
  /\ floor' = IF pending = {} THEN updates ELSE updates - 1
  /\ UNCHANGED <<rVersion, unread, got, wVars>>

\* Make do with the result of the previous read while an update is in progress.
ReadVersion_GiveUp ==
  /\ rPc = "version"
  /\ IF version % 2 # 0
       THEN rPc' = "idle" /\ UNCHANGED <<rVersion, unread>>
       ELSE rVersion' = version /\ unread' = Cells /\ rPc' = "cells"
  /\ UNCHANGED <<got, floor, wVars>>

\* Load the version; go round again while an update is in progress.
ReadVersion ==
  /\ rPc = "version"
  /\ IF version % 2 # 0
       THEN UNCHANGED rVars
       ELSE /\ rVersion' = version
            /\ unread' = Cells
            /\ rPc' = "cells"
            /\ UNCHANGED <<got, floor>>
  /\ UNCHANGED wVars

\* The loads of the cells may take place in any order.
ReadCell(c) ==
  /\ rPc = "cells" /\ c \in unread
  /\ got' = [got EXCEPT ![c] = cell[c]]
  /\ unread' = unread \ {c}
  /\ UNCHANGED <<rPc, rVersion, floor, wVars>>

\* Return whatever was read.
ReadCheck_Trusting ==
  /\ rPc = "cells" /\ unread = {}
  /\ rPc' = "idle"
  /\ UNCHANGED <<rVersion, unread, got, floor, wVars>>

\* Return if the version is still the same, else go round again.
ReadCheck ==
  /\ rPc = "cells" /\ unread = {}
  /\ rPc' = IF version = rVersion THEN "idle" ELSE "version"
  /\ UNCHANGED <<rVersion, unread, got, floor, wVars>>

-----------------------------------------------------------------------------
Writer == UpdateBegin \/ StoreOdd \/ (\E c \in Cells : StoreCell(c)) \/ StoreEven
Reader == ReadBegin \/ ReadVersion \/ (\E c \in Cells : ReadCell(c)) \/ ReadCheck
LockNext == Writer \/ Reader

LockSpec == LockInit /\ [][LockNext]_lockVars

\* An update once begun is carried through, and a read keeps running.  Neither
\* thread need ever begin another update or read.
Fairness ==
  /\ WF_lockVars(StoreOdd \/ (\E c \in Cells : StoreCell(c)) \/ StoreEven)
  /\ WF_lockVars(ReadVersion \/ (\E c \in Cells : ReadCell(c)) \/ ReadCheck)

FairLockSpec == LockSpec /\ Fairness
-----------------------------------------------------------------------------
(* Properties.                                                             *)

\* Every variable has its type.
LockTypes ==
  /\ version \in Nat /\ cell \in [Cells -> Nat] /\ updates \in Nat
  /\ pending \in SUBSET (Cells \cup {"odd", "even"})
  /\ (pending # {} => updates > 0) /\ overtaken \in BOOLEAN
  /\ rPc \in {"idle", "version", "cells"} /\ rVersion \in Nat
  /\ unread \in SUBSET Cells /\ got \in [Cells -> Nat] /\ floor \in Nat

\* While no store is pending the version is even and the cells are those of the
\* last update; during an update the version tells how far it has come.
WriterInv ==
  \/ /\ pending = {} /\ version = 2 * updates
     /\ \A c \in Cells : cell[c] = updates
  \/ /\ pending = Cells \cup {"odd", "even"} /\ updates > 0
     /\ version = 2 * (updates - 1)
     /\ \A c \in Cells : cell[c] = updates - 1
  \/ /\ "odd" \notin pending /\ "even" \in pending /\ updates > 0
     /\ version = 2 * (updates - 1) + 1
     /\ \A c \in Cells : cell[c] = IF c \in pending THEN updates - 1
                                                    ELSE updates

\* As long as the version is the one the reader loaded, so are the cells.
ReaderInv ==
  /\ 2 * floor <= version
  /\ rPc = "cells" =>
       /\ rVersion <= version /\ 2 * floor <= rVersion
       /\ \E k \in 0 .. updates : rVersion = 2 * k
       /\ version = rVersion => \A c \in Cells \ unread : 2 * got[c] = rVersion
  /\ rPc = "idle" => \E k \in floor .. updates : \A c \in Cells : got[c] = k

\* The inductive invariant.
SeqlockInv == LockTypes /\ (overtaken \/ (WriterInv /\ ReaderInv))

\* A read returns cells of different updates only where the machine has let the
\* store of a cell overtake the store of the odd version.
NoTornRead == rPc = "idle" => overtaken \/ \A c, d \in Cells : got[c] = got[d]

\* Nor does it return less than the last update completed before it began, so a
\* knob that was turned is heard, and later reads never go back.
NoStaleRead == rPc = "idle" => overtaken \/ \A c \in Cells : got[c] >= floor

\* A read returns once the updates pause: a reader that met an update half done
\* is not left spinning.
ReadReturns == rPc # "idle" ~> rPc = "idle"
=============================================================================
