------------------------------ MODULE MCParser ------------------------------
(* The stream parser with the real CRC, on a line that spoils one byte.    *)
EXTENDS StreamParser, Crc16

\* The second payload holds a MAGIC that is not the start of a frame.
PayloadSet == {<<>>, <<170, 85, 0, 0>>}

=============================================================================
