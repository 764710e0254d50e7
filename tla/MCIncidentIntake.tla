-------------------------- MODULE MCIncidentIntake --------------------------
(* Small instances of IncidentIntake for TLC. *)
EXTENDS IncidentIntake, TLC

\* Two alerts of one group and one alert that stands alone.
MCAlerts == 1 .. 3
MCKey == <<"group", "group", "alone">>

\* Two notifications, the second of two alerts in different groups; a
\* resolution of the first alert, possibly before it was heard of; and a
\* delivery that re-uses the identity of the first with other content.
MCDeliveries == {"fire", "resolve", "more", "reuse"}
MCIdentity == [d \in MCDeliveries |-> IF d = "reuse" THEN "fire" ELSE d]
MCBatch == [d \in MCDeliveries |->
    CASE d = "fire" -> (1 :> "firing")
      [] d = "resolve" -> (1 :> "resolved")
      [] d = "more" -> (2 :> "firing") @@ (3 :> "firing")
      [] d = "reuse" -> (1 :> "firing") @@ (2 :> "resolved")]

\* One delivery fires both alerts of the group; two others resolve one each.
RaceDeliveries == {"fire", "quiet1", "quiet2"}
RaceIdentity == [d \in RaceDeliveries |-> d]
RaceBatch == [d \in RaceDeliveries |->
    CASE d = "fire" -> (1 :> "firing") @@ (2 :> "firing")
      [] d = "quiet1" -> (1 :> "resolved")
      [] d = "quiet2" -> (2 :> "resolved")]
=============================================================================
