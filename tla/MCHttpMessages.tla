--------------------------- MODULE MCHttpMessages ---------------------------
(***************************************************************************)
(* Texts of the bytes that each function treats differently, and one or    *)
(* two that it does not.                                                   *)
(***************************************************************************)
EXTENDS HttpMessages

Attributes ==
    {[name |-> <<97>>, form |-> "flag", value |-> <<>>],
     [name |-> <<97>>, form |-> "plain", value |-> <<98>>],
     [name |-> <<98, SP, 99>>, form |-> "plain", value |-> <<SP, EQUALS>>],
     [name |-> <<99>>, form |-> "quoted", value |-> <<>>],
     [name |-> <<99>>, form |-> "quoted", value |-> <<SP, EQUALS, 98>>],
     [name |-> <<99>>, form |-> "quoted", value |-> <<PERCENT, 50, 48>>]}

Fields ==
    {[name |-> "content-length", value |-> "size"],
     [name |-> "transfer-encoding", value |-> "chunked"],
     [name |-> "transfer-encoding", value |-> "Chunked"],
     [name |-> "transfer-encoding", value |-> "gzip"],
     [name |-> "connection", value |-> "close"],
     [name |-> "other", value |-> "chunked"]}

MCParts ==
    [value |-> {97, 50, PERCENT, PLUS, SP, AMP, 0, 255},
     query |-> {97, AMP, EQUALS, PERCENT, 52},
     attributes |-> Attributes,
     target |-> {97, SLASH, QUESTION, COLON},
     status |-> {97, COLON, SP, 200},
     fields |-> Fields,
     end |-> {97, CR, LF}]

MCMaxParts ==
    [value |-> 5, query |-> 7, attributes |-> 5, target |-> 6, status |-> 6,
     fields |-> 5, end |-> 10]
=============================================================================
