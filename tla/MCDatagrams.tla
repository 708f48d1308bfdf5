---------------------------- MODULE MCDatagrams ----------------------------
EXTENDS Datagrams

(* A server whose client uses CIDs of length zero. *)
MCEmptyCid == [dcid : {0}, scid : {8}, token : {0}, client : {FALSE}, ack_only : {FALSE}]
============================================================================
