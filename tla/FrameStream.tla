---------------------------- MODULE FrameStream ----------------------------
(***************************************************************************)
(* What a receiver of frames promises, for any cutting of the stream into  *)
(* reads: frames are taken from the front of the bytes received, each      *)
(* once, and a byte is passed over only when no frame can begin with it,   *)
(* whatever follows.  Bytes are lost otherwise only with the connection.   *)
(***************************************************************************)
EXTENDS WireFormat

VARIABLES unread,     \* bytes received and not yet dealt with
          delivered   \* the frames handed to the consumer

vars == <<unread, delivered>>

Init == unread = <<>> /\ delivered = <<>>

Receive ==
  /\ IsStrictPrefix(unread, unread')
  /\ UNCHANGED delivered

\* Some frame begins with s, or s with it.
MayBegin(s) == \E f \in Frames : IsPrefix(f, s) \/ IsPrefix(s, f)

PassOver ==
  /\ unread # <<>>
  /\ ~MayBegin(unread)
  /\ unread' = Tail(unread)
  /\ UNCHANGED delivered

\* The consumer may reset the connection, which drops what it likes.
Deliver ==
  \E f \in Frames :
    /\ IsPrefix(f, unread)
    /\ delivered' = Append(delivered, f)
    /\ unread' \in Suffixes(SubSeq(unread, Len(f) + 1, Len(unread)))

Disconnect ==
  /\ unread' = <<>>
  /\ UNCHANGED delivered

Next ==
  \/ Receive
  \/ PassOver
  \/ Deliver
  \/ Disconnect

Spec == Init /\ [][Next]_vars

=============================================================================
