------------------------------ MODULE MCCodecs ------------------------------
(* Small instances of the codecs for TLC.  Two files, the longer of which  *)
(* takes two data packets.  A length field is needed from two bytes on and *)
(* holds up to ten: a masked frame wraps from three bytes of payload on,   *)
(* and an unmasked one of six fills a frame buffer of ten.  In strings 1   *)
(* is the space; they grow by at least three characters.                   *)
EXTENDS Codecs

FilesOfInterest   == {<<>>, <<1, 2, 3>>}
LengthsOfInterest == {0, 1, 2, 3, 6}
StringsOfInterest == {<<>>, <<1>>, <<2>>, <<1, 2>>, <<2, 1>>, <<2, 3, 2>>}
=============================================================================
