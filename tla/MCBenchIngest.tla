---------------------------- MODULE MCBenchIngest ----------------------------
(***************************************************************************)
(* Instances of BenchIngest for TLC.  The messages: one that no other is   *)
(* similar to, and two a merge may bring together, the second of which     *)
(* takes the first back.                                                   *)
(***************************************************************************)
EXTENDS BenchIngest

Message(topic, polarity, wording) ==
    [topic |-> topic, subject |-> topic, wording |-> wording, entity |-> NoEntity,
     polarity |-> polarity, at |-> 0]

Said == Message("cache", "affirmative", "use it")
Reworded == Message("cache", "neutral", "use it")
Reversed == Message("cache", "prohibitive", "never use it")
Talk == [n \in 1..Messages |->
            IF n = 1 THEN Said ELSE IF n % 2 = 0 THEN Reversed ELSE Reworded]
Sayings == {Talk[n] : n \in 1..Messages}
AllInners == {"openai", "keyword", "dual", "single"}
BenchWrites == (1..Requests) \X (1..Messages)
NoSignals == {}
Silent == {2}
=============================================================================
