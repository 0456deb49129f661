-------------------------- MODULE MCDownloadManager --------------------------
(* Three threads: one reads an index, one waits for all of its downloads, one *)
(* takes them as they come; they share a URL.                                 *)
EXTENDS DownloadManager

MCUrls == {"x", "y", "z"}
MCCallers == {"sync", "urls", "install"}
MCWant == [c \in MCCallers |-> CASE c = "sync" -> {"x"}
                                 [] c = "urls" -> {"x", "y"}
                                 [] OTHER -> {"y", "z"}]
MCKind == [c \in MCCallers |-> CASE c = "sync" -> "stream"
                                 [] c = "urls" -> "all"
                                 [] OTHER -> "any"]
MCSize == [u \in MCUrls |-> IF u = "z" THEN 1 ELSE 0]
=============================================================================
