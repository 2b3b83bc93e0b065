-------------------------- MODULE MCSharedSession --------------------------
(* A finite instance of SharedSession: two promises without and one with onOutput, *)
(* an executeSync with onOutput and one without, a file access and a reset.        *)
EXTENDS SharedSession

MCCalls == {"plain", "other", "stream", "sync", "quiet", "access", "reset"}
MCKind == [c \in MCCalls |-> CASE c \in {"plain", "other"} -> "execute"
                               [] c = "stream" -> "streaming"
                               [] c = "sync" -> "syncStreaming"
                               [] c = "quiet" -> "sync"
                               [] OTHER -> c]
MCSignalled == {"plain", "stream", "sync"}

=============================================================================
