----------------------------- MODULE MCFraming ------------------------------
(* Instances of Framing for TLC. *)
EXTENDS Framing

AllKinds == {"websocket", "browser", "nodeWs", "nodeTcp", "go"}

AllCoders == {"ts", "qmux", "go"}

Data(payload) ==
    [ID |-> DataID, channelID |-> 1, length |-> Len(payload), data |-> payload]

(* One message of each kind, with fields that differ, and data of 0 to 2 units. *)
OneOfEach ==
    { [ID |-> OpenID, senderID |-> 2, windowSize |-> 3, maxPacketSize |-> 4],
      [ID |-> OpenConfirmID, channelID |-> 1, senderID |-> 2, windowSize |-> 3, maxPacketSize |-> 4],
      [ID |-> OpenFailureID, channelID |-> 1],
      [ID |-> WindowAdjustID, channelID |-> 1, additionalBytes |-> 5],
      [ID |-> EofID, channelID |-> 1],
      [ID |-> CloseID, channelID |-> 1],
      Data(<<>>), Data(<<6>>), Data(<<6, 7>>) }
=============================================================================
