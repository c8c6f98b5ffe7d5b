--------------------------- MODULE MCCoapDelivery ---------------------------
(* CoapDelivery, with the values of the constants in the .cfg files, and the *)
(* format of what it delivers.  An update of CoapDelivery is a number, which *)
(* stands for every update of ReportFormat.                                 *)
EXTENDS CoapDelivery, ReportFormat

SomethingForwarded == \E r \in Round : backend[r] # None

(***************************************************************************)
(* A fact of the format alone, for whatever the proxy posts: the names and  *)
(* places that CBOR leaves out come back right, whichever of the optional   *)
(* fields is missing and so moves or cuts the array.  It is not all that    *)
(* the gateway tells which reaches the back end this way: the name and the  *)
(* sequence number of a tag do not, and the key of the tags and that of an  *)
(* address are not the ones that the gateway itself uses.                   *)
(***************************************************************************)
ProxyRestores ==
    SomethingForwarded =>
        \A update \in GatewayUpdate : ProxyBody(update) = Proxied(SerdeBody(update))

(***************************************************************************)
(* The keys the report schema calls required are in every body that the     *)
(* proxy posts.                                                             *)
(***************************************************************************)
SchemaKept ==
    SomethingForwarded =>
        \A update \in GatewayUpdate : RequiredKeys \subseteq DOMAIN ProxyBody(update)
=============================================================================
