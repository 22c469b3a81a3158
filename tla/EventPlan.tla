----------------------------- MODULE EventPlan -----------------------------
(***************************************************************************)
(* From the source bindings of a calendar event to its frozen plan:        *)
(* prepareCalendarEvent (domain/calendar-event-preparation.ts) assigns one *)
(* provider to every lane and builds the capability registry, and          *)
(* compileEventPlan (domain/event-cluster-beta.ts) derives from both       *)
(* whether a lane may acquire anything.  Dates, windows and the identity   *)
(* of the plan are abstracted to a revision and a settlement time.         *)
(***************************************************************************)
EXTENDS Integers, Sequences, FiniteSets

Lanes == {"sec", "issuer-ir", "transcript", "market"}

(* SOURCE_DEFINITIONS: the capability, lane and requirement of a source.   *)
Definition(capability, lane, mandatory) ==
  [capability |-> capability, lane |-> lane, mandatory |-> mandatory]

SourceDefinitions ==
  [calendarIdentity  |-> Definition("calendar-discovery", "none", TRUE),
   secSubmissions    |-> Definition("sec-filing", "sec", TRUE),
   secFilingExhibit  |-> Definition("filing-exhibit", "sec", TRUE),
   issuerRelease     |-> Definition("issuer-release", "issuer-ir", TRUE),
   issuerPresentation|-> Definition("issuer-slides", "issuer-ir", FALSE),
   issuerWebcast     |-> Definition("webcast-metadata", "issuer-ir", FALSE),
   preparedRemarks   |-> Definition("prepared-remarks", "transcript", FALSE),
   transcript        |-> Definition("transcript", "transcript", FALSE),
   estimatesSnapshot |-> Definition("expectations-snapshot", "market", FALSE),
   issuerMarketBars  |-> Definition("market-bars", "market", TRUE),
   spyMarketBars     |-> Definition("benchmark-market-data", "market", TRUE),
   sectorMarketBars  |-> Definition("benchmark-market-data", "market", TRUE)]

Sources == DOMAIN SourceDefinitions

(* The order in which sortedUnique puts capabilities.                      *)
CapabilityOrder ==
  <<"benchmark-market-data", "expectations-snapshot", "filing-exhibit", "issuer-release",
    "issuer-slides", "market-bars", "prepared-remarks", "sec-filing", "transcript",
    "webcast-metadata">>

CONSTANT FirstOptional   \* the first binding of the one lane without a mandatory source
ASSUME FirstOptionalAssumption == FirstOptional \in {"preparedRemarks", "transcript"}

(* A binding: its provider, whether an identity or path is configured, the *)
(* declared availability, and what needs a separate authorization: the     *)
(* credential, which is part of the declaration, or entitlement and live   *)
(* access, which are not.                                                  *)
Binding(provider, configured, available, credential, access) ==
  [provider |-> provider, configured |-> configured, available |-> available,
   credential |-> credential, access |-> access]

readiness(b) ==
  IF ~b.configured THEN "missing"
  ELSE IF ~b.available THEN "blocked"
  ELSE IF b.credential \/ b.access THEN "separately-authorized"
  ELSE "ready"

-----------------------------------------------------------------------------
(* providerInputs.                                                         *)
Key(bindings, s) == <<bindings[s].provider, SourceDefinitions[s].capability>>

DeclarationsAgree(bindings) ==
  \A s, t \in Sources : Key(bindings, s) = Key(bindings, t) =>
    /\ bindings[s].available = bindings[t].available
    /\ bindings[s].credential = bindings[t].credential

OfLane(lane) == {s \in Sources : SourceDefinitions[s].lane = lane}

Planned(bindings, lane) ==
  {s \in OfLane(lane) : \/ SourceDefinitions[s].mandatory
                        \/ readiness(bindings[s]) \in {"ready", "separately-authorized"}}

Selected(bindings, lane) ==
  IF Planned(bindings, lane) # {} THEN Planned(bindings, lane) ELSE {FirstOptional}

ProvidersAgree(bindings) ==
  \A lane \in Lanes : Cardinality({bindings[s].provider : s \in Selected(bindings, lane)}) = 1

(* The registry entry of a key: declared by its bindings, then made        *)
(* unavailable by a mandatory source that cannot be used, and gated by a   *)
(* selected one that needs an authorization.                               *)
Sharing(bindings, k) == {s \in Sources : Key(bindings, s) = k}

RegistryAvailable(bindings, k) ==
  \A s \in Sharing(bindings, k) :
    /\ bindings[s].available
    /\ SourceDefinitions[s].mandatory => readiness(bindings[s]) \notin {"missing", "blocked"}

RegistryGated(bindings, k) ==
  \E s \in Sharing(bindings, k) :
    \/ bindings[s].credential
    \/ /\ readiness(bindings[s]) = "separately-authorized"
       /\ \E lane \in Lanes : s \in Selected(bindings, lane)

-----------------------------------------------------------------------------
(* acquisitionPlans: the first capability that cannot be used decides.     *)
CapabilityReadiness(bindings, lane, c) ==
  LET k == <<bindings[CHOOSE s \in Selected(bindings, lane) : TRUE].provider, c>> IN
  IF ~RegistryAvailable(bindings, k) THEN "capability-unavailable"
  ELSE IF RegistryGated(bindings, k) THEN "authorization-required"
  ELSE "ready"

Capabilities(bindings, lane) ==
  SelectSeq(CapabilityOrder,
            LAMBDA c : \E s \in Selected(bindings, lane) : SourceDefinitions[s].capability = c)

acquisitionPlan(bindings, lane) ==
  LET notReady == SelectSeq(Capabilities(bindings, lane),
                            LAMBDA c : CapabilityReadiness(bindings, lane, c) # "ready") IN
  IF notReady = <<>> THEN "ready" ELSE CapabilityReadiness(bindings, lane, notReady[1])

(* validateBindings, providerInputs and compileEventPlan either fail or    *)
(* give a plan.                                                            *)
Preparable(bindings) == DeclarationsAgree(bindings) /\ ProvidersAgree(bindings)

compileEventPlan(bindings, settlementEnd) ==
  [revision |-> 1, settlementEnd |-> settlementEnd,
   readiness |-> [lane \in Lanes |-> acquisitionPlan(bindings, lane)]]

(* amendEventPlan: an amendment changes the windows and the revision       *)
(* digest; lanes, providers and the plan's identity stay.                  *)
amendEventPlan(plan, settlementEnd) ==
  [plan EXCEPT !.revision = @ + 1, !.settlementEnd = settlementEnd]
=============================================================================
