----------------------------- MODULE MCSsgSched -----------------------------
EXTENDS SsgSched, TLC
CONSTANTS r1, r2, r3, w1, w2, w3, w4, p1, z1, z2
Dirs == [b \in Bios |-> IF b \in {r1, r2, r3, p1} THEN "read" ELSE "write"]
Layout == (r1 :> 0) @@ (r2 :> 1) @@ (r3 :> 1) @@ (p1 :> 0)
          @@ (w1 :> 4) @@ (w2 :> 5) @@ (w3 :> 6) @@ (w4 :> 9)
Sectors == [b \in Bios |-> Layout[b]]
Zones == [b \in Bios |-> IF b \in {w1, w2, w3} THEN z1 ELSE IF b = w4 THEN z2 ELSE None]
Expire == [d \in Data |-> IF d = "read" THEN 1 ELSE 2]
=============================================================================
