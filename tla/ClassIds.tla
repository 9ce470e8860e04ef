----------------------------- MODULE ClassIds ------------------------------
(***************************************************************************)
(* ICS-721 class IDs (token_types.rs, ibc_helpers.rs).                     *)
(*                                                                         *)
(* A class ID is a string "port/channel/port/channel/.../address": one     *)
(* "port/channel/" prefix per hop, the latest first, then the address of   *)
(* the collection on its home chain.  The address and the two halves of a  *)
(* prefix hold no '/', so the string is represented without loss by the    *)
(* sequence of its prefixes and the address.  Nothing in a prefix says     *)
(* which chain it belongs to: two chains may use the same ports and        *)
(* channel names.                                                          *)
(***************************************************************************)
EXTENDS Naturals, Sequences

CONSTANTS Ports, Channels,
          Collections   \* addresses of native cw721 contracts, on every chain

Prefixes == Ports \X Channels

ClassId == [path : Seq(Prefixes), base : Collections]

\* ClassId::new(address): the class of a collection on its home chain.
LocalClass(addr) == [path |-> << >>, base |-> addr]

\* get_endpoint_prefix, applied to the port and channel of an endpoint.
get_endpoint_prefix(port, channel) == <<port, channel>>

\* format!("{}{}", prefix, class_id)
Prefixed(prefix, classId) ==
    [path |-> <<prefix>> \o classId.path, base |-> classId.base]

\* class_id.strip_prefix(&source_prefix) is Some(..) ...
HasPrefix(prefix, classId) ==
    classId.path # << >> /\ Head(classId.path) = prefix

\* ... and then it is Some of this.
Unprefixed(classId) == [path |-> Tail(classId.path), base |-> classId.base]
============================================================================
