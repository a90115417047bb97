---------------------------- MODULE MCThreadChannel ----------------------------
EXTENDS ThreadChannel
================================================================================
