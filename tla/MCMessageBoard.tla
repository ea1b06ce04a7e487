--------------------------- MODULE MCMessageBoard ---------------------------
(* One small instance of the message board.                                *)
EXTENDS MessageBoard, BoardValues
=============================================================================
