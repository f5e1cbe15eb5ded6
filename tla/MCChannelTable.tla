--------------------------- MODULE MCChannelTable ---------------------------
(* Two file descriptions, two threads and two slots: enough for two        *)
(* creates to race on one fd, for the table to be full, and for a slot to  *)
(* be reused while another close waits for dev_mutex.                      *)
EXTENDS ChannelTable

=============================================================================
