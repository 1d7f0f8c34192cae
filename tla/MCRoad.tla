------------------------------- MODULE MCRoad --------------------------------
(* A slow lane and a fast one, cars of length 2, and pools that run out.    *)
EXTENDS Road

CONSTANTS car, drone, convoy, slow, fast

MCSpeed == [lane \in {slow, fast} |-> IF lane = slow THEN 1 ELSE 2]
MCLength == [k \in {car, drone, convoy} |-> 2]
MCConvoyLength == [n \in 1 .. 3 |-> IF n < 3 THEN 2 ELSE 4]
MCCap == [k \in {car, drone, convoy} |-> IF k = car THEN 3 ELSE 1]

At(ts, lane, kind) == [ts |-> ts, lane |-> lane, kind |-> kind]

MCCaptures ==
  {<<At(0, slow, car), At(0, slow, car), At(1, slow, car),
     At(1, fast, car), At(2, fast, car), At(4, slow, car)>>}
=============================================================================
