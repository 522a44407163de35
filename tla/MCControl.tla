----------------------------- MODULE MCControl -----------------------------
(****************************************************************************)
(* Approvals for TLC: the server with crashes, and the library with callers  *)
(* that bring a token of their own.  A behaviour is one of a part, so that   *)
(* the state graph is the sum of theirs.                                     *)
(****************************************************************************)
EXTENDS ApprovalAuthority

CONSTANTS Parts,   \* the components that are looked at
  LibraryGated, LibraryTokens

VARIABLES part,    \* the component of this behaviour
  libraryRun, libraryLog, libraryApprovals, libraryLapsed, libraryEffects,
  libraryReceipts, librarySnapshot, libraryRegistry, libraryLock, libraryPc,
  libraryMem, libraryCrashes

\* The library at work: a caller passes a token of its own to resume.
Library == INSTANCE ApprovalAuthority
          WITH run <- libraryRun, log <- libraryLog, approvals <-
               libraryApprovals, lapsed <- libraryLapsed, effects <-
               libraryEffects, receipts <- libraryReceipts, snapshot <-
               librarySnapshot, registry <- libraryRegistry, lock <-
               libraryLock, pc <- libraryPc, mem <- libraryMem, crashes <-
               libraryCrashes, CallerTokens <- LibraryTokens, GatedSteps <-
               LibraryGated

libraryPart == <<libraryRun, libraryLog, libraryApprovals, libraryLapsed,
   libraryEffects, libraryReceipts, librarySnapshot, libraryRegistry,
   libraryLock, libraryPc, libraryMem, libraryCrashes>>
controlVars == <<part, vars, libraryPart>>

\* One component runs, the others stay as they start.
ControlInit ==
  /\ part \in Parts
  /\ Init
  /\ Library!Init

ControlNext ==
  /\ UNCHANGED part
  /\ IF part = "server" THEN Next ELSE UNCHANGED vars
  /\ IF part = "library" THEN Library!Next ELSE UNCHANGED libraryPart

ControlSpec == ControlInit /\ [][ControlNext]_controlVars

-----------------------------------------------------------------------------
\* The log of the server is behind its run by the step under way at most, and
\* its run can be moved to awaiting_approval while a request is undecided
\* (ServerInv).  With callers that bring a token of their own a step still
\* runs once and for an approval that was given (storage/approvals.py,
\* executor/executor.py).
LibraryHolds ==
  /\ part = "server" => ReplayLag /\ ServerInv
  /\ part = "library" => Library!IInv /\ Library!AtMostOnce

=============================================================================
