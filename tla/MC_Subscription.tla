-------------------------- MODULE MC_Subscription --------------------------
(* Two servers sA and sB. The client retrieved /pa from both and /pb from  *)
(* sA only, so a path names stubs on two connections and sB can notify a   *)
(* path it has no stub for. The Notifications cover each status, a         *)
(* Resource of the wrong type, one without a Resource and an unparseable   *)
(* subscribedResource.                                                     *)
EXTENDS Subscription, TLC

CONSTANTS sA, sB, pa, pb, Ta, Tb

MCServers == {sA, sB}
MCPaths == {pa, pb}
MCTypes == {Ta, Tb}
MCStubSet == {<<sA, pa>>, <<sB, pa>>, <<sA, pb>>}
MCTypeOf == (pa :> Ta) @@ (pb :> Tb)

N(res, st, ty, mv) == [res |-> res, status |-> st, type |-> ty, moved |-> mv]

MCNotes ==
  { N(pa, 0, Ta, FALSE),     \* an update of /pa
    N(pa, 0, Tb, FALSE),     \* a Resource of the wrong type
    N(pb, 0, Tb, FALSE),     \* an update of /pb
    N(pa, 0, NONE, FALSE),   \* status 0 without a Resource
    N("bad", 0, Ta, FALSE),  \* an unparseable subscribedResource
    N(pa, 1, NONE, FALSE),   \* cancelled
    N(pb, 2, NONE, TRUE),    \* cancelled, moved
    N(pa, 4, NONE, FALSE) }  \* resource deleted
====
