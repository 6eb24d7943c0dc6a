------------------------------- MODULE MCU2fApi -------------------------------
EXTENDS U2fApi
CONSTANTS c1, c2, c3
===============================================================================
