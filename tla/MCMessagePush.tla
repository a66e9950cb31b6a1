---------------------------- MODULE MCMessagePush --------------------------
EXTENDS MessagePush
=============================================================================
