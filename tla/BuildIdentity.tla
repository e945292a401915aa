------------------------------- MODULE BuildIdentity -------------------------------
(***************************************************************************)
(* The start of the page: bootstrap.js and build_identity.js.              *)
(*                                                                         *)
(* The shell that the browser gets and the build-meta.json that the page   *)
(* fetches may come from different edges and caches, each behind the site  *)
(* or stuck.  The page compares the two, reloads itself when they differ,  *)
(* and remembers the transition in the session storage of the tab.         *)
(***************************************************************************)
EXTENDS Naturals

CONSTANTS
    None,
    MaxOpens,   \* bound: loads that the person asks for
    MaxMoves,   \* bound: changes of what a request is answered with
    MaxFaults   \* bound: requests of the page that fail

VARIABLES
    site,         \* the newest build that is deployed
    shellAnswer,  \* the build of the shell that a load is answered with
    metaAnswer,   \* the build that build-meta.json is answered with
    page,         \* the document
    reloadKey,    \* BUILD_RELOAD_KEY in the session storage
    opens, moves, faults

\* share: pendingShareFragment is set; link: the person opened a share link.
NoPage == [phase |-> "closed", shell |-> None, meta |-> None, share |-> FALSE, link |-> FALSE]

Go(phase) == page' = [page EXCEPT !.phase = phase]

Fault == faults < MaxFaults /\ faults' = faults + 1

---------------------------------------------------------------------------------

\* The person opens or reloads the page in this tab, by a share link or not.
Open ==
    /\ opens < MaxOpens
    /\ opens' = opens + 1
    /\ \E link \in BOOLEAN : page' = [NoPage EXCEPT !.phase = "load", !.share = link, !.link = link]
    /\ UNCHANGED <<site, shellAnswer, metaAnswer, reloadKey, moves, faults>>

\* The document arrives, and captureShareFragment clears its address.
Load ==
    /\ page.phase = "load"
    /\ page' = [page EXCEPT !.phase = "identity", !.shell = shellAnswer]
    /\ UNCHANGED <<site, shellAnswer, metaAnswer, reloadKey, opens, moves, faults>>

\* A share link is opened in a page that has not started yet: the early listener.
HashChange ==
    /\ page.phase \in {"identity", "clear", "import"}
    /\ ~page.link
    /\ page' = [page EXCEPT !.share = TRUE, !.link = TRUE]
    /\ UNCHANGED <<site, shellAnswer, metaAnswer, reloadKey, opens, moves, faults>>

\* ensureCurrentBuild, up to the comparison.
FetchMeta ==
    /\ page.phase = "identity"
    /\ page' = [page EXCEPT !.meta = metaAnswer,
                            !.phase = IF metaAnswer = page.shell THEN "import" ELSE "clear"]
    /\ reloadKey' = IF metaAnswer = page.shell THEN None ELSE reloadKey
    /\ UNCHANGED <<site, shellAnswer, metaAnswer, opens, moves, faults>>

Transition == <<page.shell, page.meta>>

\* The catch clause of bootstrap.js: the message for a share link comes with a cleanup
\* of the session storage, which forgets the transition.
ReportError ==
    /\ page' = [page EXCEPT !.phase = IF page.share THEN "shareError" ELSE "authError",
                            !.share = FALSE]
    /\ reloadKey' = IF page.share THEN None ELSE reloadKey

\* Mutant: the transition is not remembered.
ReloadUnremembered ==
    /\ page.phase = "clear"
    /\ page' = [page EXCEPT !.phase = "load", !.share = FALSE]
    /\ UNCHANGED <<site, shellAnswer, metaAnswer, reloadKey, opens, moves, faults>>

\* clearStaleShell has ended.  The address has no fragment any more, and the reload
\* goes to that address.
ReloadOnce ==
    /\ page.phase = "clear"
    /\ IF reloadKey = Transition
         THEN ReportError
         ELSE /\ reloadKey' = Transition
              /\ page' = [page EXCEPT !.phase = "load", !.share = FALSE]
    /\ UNCHANGED <<site, shellAnswer, metaAnswer, opens, moves, faults>>

\* startPrintDrive takes the fragment, or asks for the password.
StartApp ==
    /\ page.phase = "import"
    /\ page' = [page EXCEPT !.phase = IF page.share THEN "share" ELSE "password", !.share = FALSE]
    /\ UNCHANGED <<site, shellAnswer, metaAnswer, reloadKey, opens, moves, faults>>

\* build-meta.json or a module cannot be fetched.
FetchFails ==
    /\ page.phase \in {"identity", "import"}
    /\ Fault
    /\ ReportError
    /\ UNCHANGED <<site, shellAnswer, metaAnswer, opens, moves>>

\* Another edge or cache answers, or the one that answers catches up.
AnswersMove ==
    /\ moves < MaxMoves
    /\ moves' = moves + 1
    /\ \/ shellAnswer' \in (1..site) \ {shellAnswer} /\ UNCHANGED metaAnswer
       \/ metaAnswer' \in (1..site) \ {metaAnswer} /\ UNCHANGED shellAnswer
    /\ UNCHANGED <<site, page, reloadKey, opens, faults>>

PageInit ==
    /\ shellAnswer = 1
    /\ metaAnswer = 1
    /\ page = NoPage
    /\ reloadKey = None
    /\ opens = 0
    /\ moves = 0
    /\ faults = 0

Startup == Load \/ FetchMeta \/ ReloadOnce \/ StartApp

PageNext == Open \/ HashChange \/ Startup \/ FetchFails \/ AnswersMove

---------------------------------------------------------------------------------
(* Properties. *)

Resting == {"closed", "share", "password", "shareError", "authError"}

PageTypeOK ==
    /\ page.phase \in Resting \union {"load", "identity", "clear", "import"}
    /\ page.share \in BOOLEAN /\ page.link \in BOOLEAN
    /\ shellAnswer \in 1..site /\ metaAnswer \in 1..site
    /\ opens \in Nat /\ moves \in Nat /\ faults \in Nat

\* docs/RECOVERY.md:89: a page whose shell and identity disagree, now and again or for
\* good, ends up in the app or in a message, and never keeps reloading itself.
ReloadsStop == <>[](page.phase \in Resting)
=================================================================================
