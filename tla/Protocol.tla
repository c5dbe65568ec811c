------------------------------ MODULE Protocol ------------------------------
(***************************************************************************)
(* The requests a peer sends to the hub and the frames the hub sends back: *)
(* server/Request.hpp, server/Response.cpp and the JSON built in Hub.cpp.  *)
(*                                                                         *)
(* JSON is abstracted to records.  A request that any of the code's checks *)
(* rejects with something other than an InvalidInputException (a frame of  *)
(* length 0, text that is not JSON, an unknown kind, a missing or mistyped *)
(* member) is the one value Malformed: the hub treats all of them alike.   *)
(***************************************************************************)
CONSTANTS
  ChannelName,     \* the names requests may carry
  WhitespaceName,  \* those of them that contain whitespace
  EmptyName,       \* the name of a default-constructed Channel
  Content          \* the payloads of publications

ASSUME NameAssumption == WhitespaceName \subseteq ChannelName

ChannelRequest ==
  [kind : {"Subscribe", "Unsubscribe", "CreateChannel", "DeleteChannel"},
   channel : ChannelName]

PublishRequest == [kind : {"Publish"}, channel : ChannelName, content : Content]

Ask       == [kind |-> "Ask"]
Malformed == [kind |-> "Malformed"]

Request == ChannelRequest \cup PublishRequest \cup {Ask, Malformed}

-----------------------------------------------------------------------------
(* `listing' is the set of names an Ask reports; the text "<No Channels>"  *)
(* is the empty listing, and every other response has the empty one.       *)
Response(status, listing) ==
  [type |-> "response", status |-> status, listing |-> listing]

Ok                     == Response("Ok", {})
OkWithContent(listing) == Response("Ok", listing)
InvalidRequest         == Response("Error", {})

Message(name, content) ==
  [type |-> "message", channel |-> name, content |-> content]

Frame ==
  [type : {"response"}, status : {"Ok", "Error"},
   listing : SUBSET (ChannelName \cup {EmptyName})]
    \cup [type : {"message"}, channel : ChannelName, content : Content]
=============================================================================
