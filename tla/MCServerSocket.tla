--------------------------- MODULE MCServerSocket ---------------------------
(* Small instances of ServerSocket for TLC.  A header of two bytes in a    *)
(* buffer of five is the smallest in which a packet can be cut in its      *)
(* header and in its payload, fill the buffer exactly and exceed it with   *)
(* its header only.                                                        *)
EXTENDS ServerSocket

(* Nothing but the header; a packet cut anywhere; the largest that fits    *)
(* with its header; the largest that fits without; too large; wrapping.    *)
PeerSizesOfInterest == {0, 1, BufferMax - HeaderSize, BufferMax - 1,
                        BufferMax + 1, Unsigned - 1 - HeaderSize}
AppSizesOfInterest  == {0, BufferMax - HeaderSize, BufferMax, BufferMax + 1}
=============================================================================
