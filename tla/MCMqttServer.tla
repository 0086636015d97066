----------------------------- MODULE MCMqttServer -----------------------------
(* Two robot ids and two navigation commands, one of them with an empty      *)
(* request_id; cancels come with the other's or an empty one.                *)
EXTENDS MqttServer, TLC

CONSTANTS burger1, burger2, r1, r2, first

TwoRobots == {burger1, burger2}
TwoRequests == {r1, r2}
OneId == {first}
FirstHasId == r1 :> first @@ r2 :> NoId
=============================================================================
