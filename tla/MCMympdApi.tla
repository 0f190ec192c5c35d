----------------------------- MODULE MCMympdApi -----------------------------
(* Instances of MympdApi *)
EXTENDS MympdApi

CONSTANTS default, bedroom

TwoPartitions == <<default, bedroom>>

\* the type matters only where a request is discarded
AllRequests  == {r \in Request : r.type = "default" \/ r.for = Unknown \/ r.class = "mpd"}
FewRequests  == [for : {default}, class : {"mpd", "rm"}, type : {"default"}]
=============================================================================
