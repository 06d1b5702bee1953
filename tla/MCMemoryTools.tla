---------------------------- MODULE MCMemoryTools ---------------------------
(***************************************************************************)
(* Workloads for MemoryTools: each two or three calls that meet in one     *)
(* table, on the backends that tell them apart.                            *)
(***************************************************************************)
EXTENDS MemoryTools, AlgorithmChecks

CONSTANTS e1, e2, e3, e4, r1, r2, r3, r4, r5, p1, p2, p3, p4, c1, c2, c3

(* e1 and e2 are stored, e3 is the id of a write, e4 a source no longer    *)
(* there.  r1 was confirmed by a person (trust 5), r2 and r3 inferred.     *)
(* r4, r5, p3, p4 are ids of consolidations.                               *)
StoredEpisodes == (e1 :> NewEpisode) @@ (e2 :> NewEpisode) @@ (e3 :> NoEpisode) @@ (e4 :> NoEpisode)
StoredRules ==
    (r1 :> [NewRule EXCEPT !.trust = 5]) @@ (r2 :> NewRule) @@ (r3 :> NewRule)
        @@ (r4 :> NoRule) @@ (r5 :> NoRule)
StoredPitfalls ==
    (p1 :> [NewPitfall EXCEPT !.occurrences = 2]) @@ (p2 :> NewPitfall) @@ (p3 :> NoPitfall)
        @@ (p4 :> NoPitfall)
DerivedFrom ==
    {Edge(r1, e1, "DERIVED_FROM"), Edge(r1, e2, "DERIVED_FROM"),
     Edge(r2, e1, "DERIVED_FROM"), Edge(r2, e4, "DERIVED_FROM"), Edge(p1, e1, "DERIVED_FROM")}

RuleContradictions == {{r1, r2}, {r2, r3}, {r3, r4}}
TaskOf == (e1 :> "debug") @@ (e2 :> "debug") @@ (e3 :> "feature") @@ (e4 :> "feature")
SiteOf == (e1 :> "pool") @@ (e2 :> "pool") @@ (e3 :> NoSite) @@ (e4 :> NoSite)

Unused == Ended(Idle("none", NoId, "none"), "ok")
Load(a, b, c, backends) ==
    [calls |-> (c1 :> a) @@ (c2 :> b) @@ (c3 :> c), backends |-> backends,
     episode |-> StoredEpisodes, rule |-> StoredRules, pitfall |-> StoredPitfalls,
     edges |-> DerivedFrom, records |-> {}]

Touch(m) == Idle("touch", m, "none")
Feedback(i, action) == Idle("feedback", i, action)
WriteCall(m, similar, debug) == Idle("write", m, [similar |-> similar, debug |-> debug])
RetireCall(m) == Idle("retire", m, "none")
Delete == Idle("delete", NoId, "none")
OnPit(op, p) == Idle(op, p, "none")
Rate(p, action) == Idle("rate", p, action)
Prepare == Idle("prepare", NoId, "none")
Detect == Idle("detect", NoId, "none")
Resolve == Idle("resolve", NoId, "none")
Consolidate == Idle("consolidate", NoId, "none")

EpisodeLoads ==
    {Load(Touch(e1), Feedback(e1, "corrected"), RetireCall(e1), Backends),
     Load(Touch(e1), Touch(e1), Feedback(e1, "ignored"), Backends),
     Load(Feedback(r1, "corrected"), RetireCall(e1), Feedback(p1, "corrected"), Backends),
     Load(Feedback(r2, "corrected"), Feedback(r2, "used"), Touch(e1), Backends),
     Load(Feedback(e1, "corrected"), Feedback(p1, "corrected"), Feedback(r1, "corrected"), Backends),
     Load(WriteCall(e3, {e1, e2}, FALSE), WriteCall(e4, {e1}, FALSE), Feedback(e1, "corrected"),
          Backends),
     Load(WriteCall(e3, {e1}, TRUE), RetireCall(e1), Touch(e1), Backends),
     Load(WriteCall(e3, {}, TRUE), OnPit("link", p1), RetireCall(e2), Backends),
     Load(WriteCall(e3, {}, FALSE), Delete, WriteCall(e4, {}, FALSE), Backends)}
PitfallLoads ==
    {Load(OnPit("suppress", p1), OnPit("link", p1), Prepare, Backends),
     Load(OnPit("suppress", p1), OnPit("confirm", p1), Prepare, Backends),
     Load(OnPit("confirm", p2), OnPit("link", p2), Prepare, Backends),
     Load(WriteCall(e3, {}, TRUE), Prepare, OnPit("suppress", p2), Backends),
     Load(OnPit("suppress", p1), OnPit("confirm", p1), Rate(p1, "recurred"), Backends),
     Load(OnPit("suppress", p1), OnPit("suppress", p1), Prepare, Backends),
     Load(Rate(p1, "adopted"), Prepare, Feedback(p1, "used"), Backends)}
RuleLoads ==
    {Load(Detect, Detect, Resolve, Backends), Load(Detect, Resolve, Resolve, Backends)}
RunLoads ==
    {Load(Consolidate, RetireCall(e1), Unused, Backends),
     Load(Consolidate, Detect, Resolve, Backends),
     Load(Consolidate, Feedback(r4, "corrected"), Unused, Backends),
     Load(Consolidate, Consolidate, Unused, Backends)}

MCWorkloads == EpisodeLoads \cup PitfallLoads \cup RuleLoads \cup RunLoads
=============================================================================
