-------------------------------- MODULE Stun --------------------------------
(***************************************************************************)
(* The STUN binding responder (stun/binding.go, stun/responder.go): what a *)
(* datagram means and with which datagram it is answered, if at all.       *)
(***************************************************************************)
EXTENDS Integers, Sequences

CONSTANT StunSource   \* the endpoint of --stun-source-address

\* An endpoint is four bytes of an address, its class ("unicast", "unspecified",
\* "multicast" or "ipv6") and two bytes of a port.  IPv4 addresses in IPv6 form
\* count as the IPv4 address.

ASSUME StunAssumption ==
  /\ DOMAIN StunSource = {"class", "ip", "port"}
  /\ StunSource.class = "unicast" /\ StunSource.port # <<0, 0>>
  /\ StunSource.ip \in [1..4 -> 0..255] /\ StunSource.port \in [1..2 -> 0..255]

HeaderBytes        == 20   \* HeaderSize
BindingRequestSize == 28

\* types of messages and attributes, lengths: two bytes, high byte first
BindingRequest  == <<0, 1>>
BindingResponse == <<1, 1>>
BodyLength      == <<0, 8>>
ResponseLength  == <<0, 36>>
MappedAddress   == <<0, 1>>
ChangeRequest   == <<0, 3>>
SourceAddress   == <<0, 4>>
ChangedAddress  == <<0, 5>>

\* changeFlagMask: bits 1 (port) and 2 (address) of the last flag byte
FlagBytes == [none |-> 0, port |-> 2, address |-> 4, both |-> 6]

NotBinding == [kind |-> "refused"]

-----------------------------------------------------------------------------
\* ParseBindingRequest
ParseBindingRequest(packet) ==
  IF /\ Len(packet) = BindingRequestSize
     /\ SubSeq(packet, 1, 2) = BindingRequest
     /\ SubSeq(packet, 3, 4) = BodyLength
     /\ SubSeq(packet, 21, 22) = ChangeRequest
     /\ SubSeq(packet, 23, 24) = <<0, 4>>
     /\ SubSeq(packet, 25, 27) = <<0, 0, 0>>
     /\ \E change \in DOMAIN FlagBytes : packet[28] = FlagBytes[change]
  THEN [kind |-> "binding", transaction |-> SubSeq(packet, 5, HeaderBytes),
        change |-> CHOOSE change \in DOMAIN FlagBytes : packet[28] = FlagBytes[change]]
  ELSE NotBinding

\* The client's side, as the tests of src/ build requests.
BindingPacket(request) ==
  BindingRequest \o BodyLength \o request.transaction
    \o ChangeRequest \o <<0, 4>> \o <<0, 0, 0, FlagBytes[request.change]>>

-----------------------------------------------------------------------------
\* udpAddrPort: no response goes to such a peer
Unusable(peer) == peer.class \in {"ipv6", "unspecified"} \/ peer.port = <<0, 0>>

\* validateEndpoint
Specific(endpoint) == endpoint.class = "unicast" /\ endpoint.port # <<0, 0>>

\* putAddressAttribute
AddressAttribute(type, endpoint) ==
  type \o <<0, 8>> \o <<0, 1>> \o endpoint.port \o endpoint.ip

\* BuildBindingResponse, of which main makes source and changed address the same
Response(request, mapped) ==
  BindingResponse \o ResponseLength \o request.transaction
    \o AddressAttribute(MappedAddress, mapped)
    \o AddressAttribute(SourceAddress, StunSource)
    \o AddressAttribute(ChangedAddress, StunSource)

\* Responder.HandleUDP writes a response; else it is silent, and an error of the
\* response's construction is logged.
Responds(request, peer) ==
  /\ request # NotBinding /\ request.change = "none"
  /\ ~Unusable(peer) /\ Specific(peer)
=============================================================================
