-------------------------- MODULE MCSocketEndpoint --------------------------
(* Calls for the model checker: every shape of message, among them an echo   *)
(* whose payload looks like the start of a control message, arrays that need *)
(* several messages, and a string that is no whole number of words.          *)
EXTENDS SocketEndpoint

MCCalls ==
  {[op |-> "SendBlockIDs", ids |-> <<1, 2>>],
   [op |-> "SendSlabIDs", ids |-> <<1, 2, 3>>],
   [op |-> "SendBlocksAndInfo", ids |-> <<1, 2, 3>>],
   [op |-> "SendRegistration", ids |-> <<1, 2, 3>>],
   [op |-> "SendCtrlString", len |-> 3],
   [op |-> "SendManagerEcho", words |-> <<Token, Header("DropReportAck", 0)>>],
   [op |-> "SendDropReport"],
   [op |-> "SendDropReportAck"]}
=============================================================================
