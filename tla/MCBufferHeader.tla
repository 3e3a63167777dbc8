---- MODULE MCBufferHeader ----
(* Values for BufferHeader: a size_t of two chars, a char of four values.  *)
EXTENDS BufferHeader

MCPath == {<<1>>, <<2, 1>>}
MCLog == {<<1>>, <<3, 2>>}

\* Little endian.
MCSizeBytes == [n \in Size |-> [i \in 1..W |-> (n \div Base ^ (i - 1)) % Base]]

\* Any lengths behind either magic, and a rest without structure.
MCCacheFile(n) ==
    {[i \in 0..(n - 1) |->
        CASE i = 0 -> mg
          [] i \in 1..W -> WordBytes(ll)[i]
          [] i \in (W + 1)..(W + W) -> WordBytes(pl)[i - W]
          [] OTHER -> rest] :
        mg \in {0, Magic}, ll \in Size, pl \in Size, rest \in {0, Base - 1}}

====
