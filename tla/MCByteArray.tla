---------------------------- MODULE MCByteArray -----------------------------
(* Small instances of ByteArray for TLC. *)
EXTENDS ByteArray

\* A number that the byte order changes, one of three groups, the most negative
\* one, a string, and the empty string.
Mixed == {<<"fuint16", <<10>>>>, <<"uint32", <<31>>>>, <<"int32", <<-16>>>>,
          <<"stringF16", <<3>>>>, <<"stringVint", <<>>>>}
=============================================================================
