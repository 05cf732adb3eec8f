-------------------------- MODULE MCMetadataPatch --------------------------
(***************************************************************************)
(* Two EXIF tags and two XMP properties, the name of one the beginning of  *)
(* the other's.  The stores have a repeated value, a repeated key, an      *)
(* escaped character and a deleted entry.                                  *)
(***************************************************************************)
EXTENDS MetadataPatch

MCTagOrder == <<"Make", "Model">>
MCFrame == [k \in ExifKey |-> <<k>>]
MCNamesFrom == [k \in XmpKey |-> IF k = "User" THEN {"User", "UserComment"} ELSE {k}]

E(k, shape, bytes) == [key |-> k, shape |-> shape, bytes |-> bytes, deleted |-> FALSE]
Gone(k, bytes) == [key |-> k, shape |-> "text", bytes |-> bytes, deleted |-> TRUE]

MCStores ==
    {<<E("Model", "scalar", <<"a">>), E("Make", "scalar", <<"a">>), E("User", "text", <<"&">>)>>,
     <<Gone("Make", <<"b">>), E("Make", "text", <<"a">>), E("Make", "text", <<"a">>)>>,
     <<E("UserComment", "text", <<"a">>), E("User", "text", <<"a">>)>>}

Want(k, n, shape, count, escaped) ==
    [key |-> k, occurrence |-> n, expected |-> [shape |-> shape, count |-> count],
     escaped |-> escaped]

MCRequests ==
    {Want("Make", 1, "text", 1, 0)}
    \cup {Want("Model", 0, "scalar", 1, 0), Want("User", 0, "text", 1, 2)}
    \cup {Want(k, 0, "text", 1, 1) : k \in XmpKey}

V(shape, bytes) == [shape |-> shape, bytes |-> bytes]

MCValues ==
    {V("text", <<"b">>), V("text", <<"&">>), V("text", <<"b", "a">>),
     V("text", <<"\\0">>), V("scalar", <<"b">>)}
=============================================================================
