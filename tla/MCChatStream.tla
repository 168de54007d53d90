---------------------------- MODULE MCChatStream ----------------------------
(* Chunks for TLC: every part alone or with those it can be confused with. *)
EXTENDS ChatStream

MCChunks == {{"reason"}, {"text"}, {"call"}, {"noise"}, {"reason", "text", "call", "finish"},
             {"usage"}, {"reason", "badcall"}, {"bad"}}
=============================================================================
