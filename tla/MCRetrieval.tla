------------------------------ MODULE MCRetrieval ------------------------------
(***************************************************************************)
(* Small instance of Retrieval for TLC: every stream of up to three bytes,  *)
(* each a newline or one of two others, and longer ones for what needs     *)
(* length: several matching lines, a full index, a page past its bytes.    *)
(***************************************************************************)
EXTENDS Retrieval

AllStreams ==
    UNION {[1..n -> Bytes] : n \in 0..3}
        \cup {<<"m", "nl", "m", "nl">>, <<"nl", "m", "k", "nl">>,
              <<"m", "nl", "k", "m">>, <<"nl", "nl", "nl", "m">>,
              <<"m", "nl", "nl", "k">>,
              <<"m", "nl", "m", "nl", "m">>, <<"k", "nl", "m", "nl", "k">>,
              <<"m", "k", "nl", "m", "m">>, <<"nl", "nl", "nl", "nl", "nl">>,
              <<"m", "k", "nl", "k", "nl", "m">>,
              <<"m", "k", "nl", "k", "nl", "m", "m">>}

MarkerSet == {<<"m", "nl", "k">>, <<"m", "nl", "nl", "k">>}
===============================================================================
