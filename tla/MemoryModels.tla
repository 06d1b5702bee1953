---------------------------- MODULE MemoryModels ----------------------------
(***************************************************************************)
(* The three kinds of memory a store keeps, as far as the tools that       *)
(* maintain them tell rows apart, and the pure rules of the models package *)
(* every backend shares.  A row exists when it is stored; text, project    *)
(* and times are left out.  Weights and effective frequencies count        *)
(* twentieths: 0.05 is the smallest step any of the rules takes.           *)
(***************************************************************************)
EXTENDS Integers

Full == 20
Least(a, b) == IF a < b THEN a ELSE b
Clamped(w) == IF w < 0 THEN 0 ELSE Least(w, Full)
DefaultTrust == 3
MaxTrust == 5
ProtectionLevelMax == 3

Statuses == {"proposed", "confirmed", "suppressed", "obsolete"}

(* A status no release knows reads as proposed.                            *)
Normalize(status) == IF status \in Statuses THEN status ELSE "proposed"

PitfallFeedbackActions == {"adopted", "ignored", "recurred"}

WeightDelta(action) ==
    CASE action = "adopted" -> 2 [] action = "ignored" -> -2 [] action = "recurred" -> 1

(* Mutant: a suppressed pitfall may still be shown.                        *)
InjectableAnyStatus(p) ==
    p.status = "confirmed" \/ (p.occurrences >= 2 /\ p.weight >= 12)

(* Active injection may surface the pitfall: somebody confirmed it, or it  *)
(* was hit twice and its weight is at least 0.6.                           *)
Injectable(p) ==
    \/ Normalize(p.status) = "confirmed"
    \/ Normalize(p.status) = "proposed" /\ p.occurrences >= 2 /\ p.weight >= 12

SearchActions == {"used", "corrected", "confirmed", "ignored"}

(* What a caller's behaviour after a retrieval is worth; a correction that *)
(* comes through the API is always taken as the user's.                    *)
BehaviourDelta(action) ==
    CASE action = "used" -> 2 [] action = "corrected" -> 10 + 6
      [] action = "confirmed" -> 4 [] action = "ignored" -> -1

(* The weight moves by the delta within [0, 1]; the effective frequency    *)
(* grows by its magnitude.                                                 *)
ApplyFeedback(weight, freq, action) ==
    LET d == BehaviourDelta(action)
    IN  [weight |-> Clamped(weight + d), freq |-> freq + (IF d < 0 THEN -d ELSE d)]

NoEpisode == [stored |-> FALSE, weight |-> 0, freq |-> 0, trust |-> DefaultTrust,
              retired |-> FALSE]
NoRule == [stored |-> FALSE, weight |-> 0, freq |-> 0, trust |-> DefaultTrust,
           retired |-> FALSE]
NoPitfall == [stored |-> FALSE, status |-> "proposed", retired |-> FALSE, weight |-> 0,
              occurrences |-> 0, shown |-> 0, suppressed |-> 0, adopted |-> 0,
              protection |-> 0, moved |-> FALSE]

(* A row as a writer creates it.                                           *)
NewEpisode == [NoEpisode EXCEPT !.stored = TRUE, !.weight = Full, !.freq = Full]
NewRule == [NoRule EXCEPT !.stored = TRUE, !.weight = Full, !.freq = Full]
NewPitfall == [NoPitfall EXCEPT !.stored = TRUE, !.weight = Full, !.occurrences = 1]

EpisodeRow == [stored : BOOLEAN, weight : Nat, freq : Nat, trust : 1..MaxTrust, retired : BOOLEAN]
RuleRow == EpisodeRow
PitfallRow == [stored : BOOLEAN, status : Statuses, retired : BOOLEAN, weight : Int,
               occurrences : Nat, shown : Nat, suppressed : Nat, adopted : Nat,
               protection : Nat, moved : BOOLEAN]
=============================================================================
