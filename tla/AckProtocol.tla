----------------------------- MODULE AckProtocol -----------------------------
(***************************************************************************)
(* What a management server may rely on in the requests of an ADS client,  *)
(* as discovery.proto describes it: a request names the last response of   *)
(* its type that the client received on this stream, and the version of    *)
(* the last one it applied, on this stream or an earlier one.  A request   *)
(* is thus an ACK (the version is that of the named response), a NACK (it  *)
(* is an older one) or a first request (no response is named).             *)
(***************************************************************************)
EXTENDS Naturals, Sequences

CONSTANTS Types, Versions, NoVersion

VARIABLES
    open,       \* is there a stream?
    offers,     \* the responses the server has sent on it
    received,   \* by type, the nonce of the last one the client received
    applied,    \* by type, the last version the client applied
    requests    \* the requests the server has got on it

vars == <<open, offers, received, applied, requests>>

Offers == [type : Types, nonce : Nat \ {0}, version : Versions]

Init ==
    /\ open = FALSE /\ offers = {} /\ requests = <<>>
    /\ received = [t \in Types |-> 0]
    /\ applied = [t \in Types |-> NoVersion]

(* A new stream: what was received on the last one counts no more, what    *)
(* was applied does.                                                       *)
Connect ==
    /\ open' = TRUE /\ offers' = {} /\ requests' = <<>>
    /\ received' = [t \in Types |-> 0]
    /\ UNCHANGED applied

(* No stream can be had.                                                   *)
Fail ==
    /\ open' = FALSE /\ offers' = {} /\ requests' = <<>>
    /\ UNCHANGED <<received, applied>>

Disconnect ==
    /\ open
    /\ open' = FALSE
    /\ UNCHANGED <<offers, received, applied, requests>>

(* The server sends a response with a new nonce.                           *)
Offer ==
    /\ open
    /\ \E offer \in offers' :
         /\ offer \in Offers
         /\ \A old \in offers : old.nonce < offer.nonce
         /\ offers' = offers \cup {offer}
    /\ UNCHANGED <<open, received, applied, requests>>

(* The client receives a response, none before one of its type that it has *)
(* received already, and applies it or not.                                *)
Receive(offer) ==
    /\ received[offer.type] < offer.nonce
    /\ received' = [received EXCEPT ![offer.type] = offer.nonce]
    /\ \/ applied' = [applied EXCEPT ![offer.type] = offer.version]
       \/ UNCHANGED applied
    /\ UNCHANGED <<open, offers, requests>>

(* A request says what the client has received and applied of the type.    *)
Request(t) ==
    /\ open
    /\ requests' = Append(requests, [type |-> t, nonce |-> received[t],
                                     version |-> applied[t]])
    /\ UNCHANGED <<open, offers, received, applied>>

Next == \/ Connect \/ Fail \/ Disconnect \/ Offer
        \/ \E offer \in offers : Receive(offer)
        \/ \E t \in Types : Request(t)

Spec == Init /\ [][Next]_vars
=============================================================================
