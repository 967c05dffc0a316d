---------------------------- MODULE MC_TaintKept ----------------------------
EXTENDS MC_TaintScopes, XSSTaintKept
=============================================================================
