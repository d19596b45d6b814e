------------------------------ MODULE MCStorage ------------------------------
(***************************************************************************)
(* Storage on seven sectors, room for four entries, two in a sector, two   *)
(* units of data in a sector, and used and avail indices that wrap.  One   *)
(* archive has a file with a partial last sector, an empty file and, in    *)
(* the second sector of the directory, a file of one whole sector; one has *)
(* a name twice; one is empty.  Programs have up to two segments within    *)
(* four pages of two bytes; numbers have 8 bits.                           *)
(***************************************************************************)
EXTENDS Storage

MCSector == 0 .. 6
MCZero == <<"data", <<0, 0>>>>
MCArchives == {
    << [name |-> "a", blob |-> <<1, 2, 3>>], [name |-> "b", blob |-> <<>>],
       [name |-> "c", blob |-> <<4, 5>>] >>,
    << [name |-> "a", blob |-> <<1>>], [name |-> "a", blob |-> <<2>>] >>,
    <<>> }
MCRawData == {MCZero, <<"data", <<8, 9>>>>}
MCData == MCRawData \cup UNION {Range(Image(files)) : files \in MCArchives}
==============================================================================
