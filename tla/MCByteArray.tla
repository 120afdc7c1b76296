----------------------------- MODULE MCByteArray -----------------------------
(* Small instances of ByteArray for TLC.                                   *)
EXTENDS ByteArray

\* Bytes have 4 values and a varint byte carries one bit: -4 takes three bytes.
TypedInputs == {<<"byte", 3>>, <<"fixed", 6>>, <<"uint", 2>>, <<"int", -4>>,
                <<"stringF", <<1>>>>, <<"stringV", <<>>>>}
Datagrams   == {<<1, 3>>}
=============================================================================
