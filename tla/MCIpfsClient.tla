----------------------------- MODULE MCIpfsClient -----------------------------
(* An instance of IpfsClient for TLC: three adds, two of one content and one *)
(* too large, and two fetches: of that content and of the empty one.         *)
EXTENDS IpfsClient

MCCalls    == 1 .. 5
MCObjects  == {"x", "huge", "empty"}
MCOversize == {"huge"}
MCAdds     == 1 .. 3
MCOf       == [c \in MCCalls |->
                  CASE c \in {1, 2, 4} -> "x" [] c = 3 -> "huge"
                    [] c = 5 -> "empty"]
==============================================================================
