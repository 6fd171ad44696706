---------------------------- MODULE MCByteArray -----------------------------
(* ByteArray with nodes of two bytes, bytes of three bits and words of five.*)
EXTENDS ByteArray

MCBuffers == {<<>>, <<1, 7, 2>>}
MCItems == {<<"fixed", 11>>, <<"int", -16>>, <<"uint", 31>>, <<"string", <<6>> >>,
            <<"vstring", <<5>> >>}
=============================================================================
