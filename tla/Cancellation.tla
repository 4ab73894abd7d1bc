---------------------------- MODULE Cancellation ----------------------------
(***************************************************************************)
(* Passing a CancellationFlag on to the parser (TreeSitterCancellationFlag *)
(* and the first block of Builder::build).                                 *)
(*                                                                         *)
(* The parser of tree-sitter looks at an atomic integer while it works.  A *)
(* thread polls the CancellationFlag, a reference whose lifetime was       *)
(* erased, and sets the atomic.  The atomic is counted: the builder has a   *)
(* strong reference, the thread a weak one which it upgrades for each poll. *)
(***************************************************************************)
EXTENDS FiniteSets

CONSTANT Builds      \* calls of Builder::build

VARIABLES
  caller,   \* build -> where it is; the flag's lifetime ends with "returned"
  raised,   \* build -> whether its CancellationFlag is raised
  stop,     \* build -> the atomic that the parser looks at
  strong,   \* build -> who holds a strong reference to the atomic
  poller,   \* build -> the thread
  stopped   \* builds whose parse was cancelled

vars == <<caller, raised, stop, strong, poller, stopped>>

TypeOK ==
  /\ caller \in [Builds -> {"called", "parsing", "parsed", "dropped", "returned"}]
  /\ raised \in [Builds -> BOOLEAN]
  /\ stop \in [Builds -> BOOLEAN]
  /\ strong \in [Builds -> SUBSET {"builder", "poller"}]
  /\ poller \in [Builds -> {"none", "sleeping", "polling", "ended"}]
  /\ stopped \subseteq Builds
  /\ \A b \in Builds : poller[b] = "polling" <=> "poller" \in strong[b]

Init ==
  /\ caller = [b \in Builds |-> "called"]
  /\ raised = [b \in Builds |-> FALSE]
  /\ stop = [b \in Builds |-> FALSE]
  /\ strong = [b \in Builds |-> {}]
  /\ poller = [b \in Builds |-> "none"]
  /\ stopped = {}

CallerAt(b, l) == caller' = [caller EXCEPT ![b] = l]
PollerAt(b, l) == poller' = [poller EXCEPT ![b] = l]

-----------------------------------------------------------------------------
(* The builder. *)

(* Mutated: the atomic starts out as set. *)
FromStopped(b) ==
  /\ caller[b] = "called"
  /\ CallerAt(b, "parsing")
  /\ PollerAt(b, "sleeping")
  /\ strong' = [strong EXCEPT ![b] = {"builder"}]
  /\ stop' = [stop EXCEPT ![b] = TRUE]
  /\ UNCHANGED <<raised, stopped>>

(* TreeSitterCancellationFlag::from, then the parse begins. *)
From(b) ==
  /\ caller[b] = "called"
  /\ CallerAt(b, "parsing")
  /\ PollerAt(b, "sleeping")
  /\ strong' = [strong EXCEPT ![b] = {"builder"}]
  /\ UNCHANGED <<raised, stop, stopped>>

ParserStops(b) ==
  /\ caller[b] = "parsing"
  /\ stop[b]
  /\ CallerAt(b, "parsed")
  /\ stopped' = stopped \cup {b}
  /\ UNCHANGED <<raised, stop, strong, poller>>

ParserFinishes(b) ==
  /\ caller[b] = "parsing"
  /\ CallerAt(b, "parsed")
  /\ UNCHANGED <<raised, stop, strong, poller, stopped>>

(* Mutated: the atomic is freed although the thread holds it. *)
DropFreeing(b) ==
  /\ caller[b] = "parsed"
  /\ CallerAt(b, "dropped")
  /\ strong' = [strong EXCEPT ![b] = {}]
  /\ UNCHANGED <<raised, stop, poller, stopped>>

(* The end of the block. *)
Drop(b) ==
  /\ caller[b] = "parsed"
  /\ CallerAt(b, "dropped")
  /\ strong' = [strong EXCEPT ![b] = @ \ {"builder"}]
  /\ UNCHANGED <<raised, stop, poller, stopped>>

(* build returns, and then its caller, whose local the flag is. *)
Return(b) ==
  /\ caller[b] = "dropped"
  /\ CallerAt(b, "returned")
  /\ UNCHANGED <<raised, stop, strong, poller, stopped>>

-----------------------------------------------------------------------------
(* The thread, after each sleep. *)

(* Mutated: the thread has a strong reference from the start. *)
UpgradeStrong(b) ==
  /\ poller[b] = "sleeping"
  /\ strong' = [strong EXCEPT ![b] = @ \cup {"poller"}]
  /\ PollerAt(b, "polling")
  /\ UNCHANGED <<caller, raised, stop, stopped>>

Upgrade(b) ==
  /\ poller[b] = "sleeping"
  /\ \/ /\ strong[b] = {}
        /\ PollerAt(b, "ended")
        /\ UNCHANGED strong
     \/ /\ strong[b] # {}
        /\ strong' = [strong EXCEPT ![b] = @ \cup {"poller"}]
        /\ PollerAt(b, "polling")
  /\ UNCHANGED <<caller, raised, stop, stopped>>

(* Mutated: the thread gives up at the first poll. *)
PollOnce(b) ==
  /\ poller[b] = "polling"
  /\ strong' = [strong EXCEPT ![b] = @ \ {"poller"}]
  /\ PollerAt(b, "ended")
  /\ stop' = [stop EXCEPT ![b] = raised[b]]
  /\ UNCHANGED <<caller, raised, stopped>>

(* check of the flag, which returns anything when the flag is gone. *)
Poll(b) ==
  /\ poller[b] = "polling"
  /\ strong' = [strong EXCEPT ![b] = @ \ {"poller"}]
  /\ \E cancelled \in IF caller[b] = "returned" THEN BOOLEAN ELSE {raised[b]} :
       /\ PollerAt(b, IF cancelled THEN "ended" ELSE "sleeping")
       /\ stop' = [stop EXCEPT ![b] = @ \/ cancelled]
  /\ UNCHANGED <<caller, raised, stopped>>

-----------------------------------------------------------------------------
(* The time of some builds is up, or everything is cancelled. *)
Raise(bs) ==
  /\ \E b \in bs : ~raised[b]
  /\ raised' = [b \in Builds |-> raised[b] \/ b \in bs]
  /\ UNCHANGED <<caller, stop, strong, poller, stopped>>

Next ==
  \/ \E b \in Builds :
       \/ From(b) \/ ParserStops(b) \/ ParserFinishes(b) \/ Drop(b) \/ Return(b)
       \/ Upgrade(b) \/ Poll(b)
  \/ \E b \in Builds : Raise({b})
  \/ Raise(Builds)

(* The parser looks at the atomic again and again, but need not finish. *)
Spec ==
  /\ Init /\ [][Next]_vars
  /\ \A b \in Builds :
       /\ WF_vars(ParserStops(b))
       /\ WF_vars(Drop(b) \/ Return(b))
       /\ WF_vars(Upgrade(b) \/ Poll(b))

-----------------------------------------------------------------------------
(* Properties. *)

(* A flag that is raised stops the parse, however long that would take: the *)
(* thread neither misses the flag nor ends before the parse.                *)
CancelReachesParser ==
  \A b \in Builds : caller[b] = "parsing" /\ raised[b] ~> caller[b] # "parsing"

(* No thread stays behind when the parse is over. *)
PollersEnd ==
  \A b \in Builds : caller[b] = "parsed" ~> poller[b] = "ended"

(* A parse is cancelled only if its flag was raised, never by the poller of *)
(* another build or by what the thread does at the end of the lifetime.     *)
StoppedOnlyIfRaised == \A b \in stopped : raised[b]

(* The inductive invariant behind it: as long as the parser may look at the *)
(* atomic, only a raised flag has set it, and a parse that has been stopped *)
(* was stopped by it.                                                       *)
IInv ==
  /\ TypeOK
  /\ StoppedOnlyIfRaised
  /\ \A b \in Builds : caller[b] = "called" => ~stop[b] /\ poller[b] = "none"
  /\ \A b \in Builds : caller[b] # "returned" /\ stop[b] => raised[b]

(* "All of this ensures that the thread will not access `cancellation_flag` *)
(* beyond its lifetime": whenever the thread is about to check the flag, it *)
(* is there.                                                                *)
FlagIsAlive == \A b \in Builds : poller[b] = "polling" => caller[b] # "returned"
=============================================================================
