---------------------------- MODULE MbFlowProofs ----------------------------
(***************************************************************************)
(* Every flow that the compiler accepts, in the firmware's main loop: it   *)
(* never faults, nothing but good readings of its sensors reaches the PWM, *)
(* and the telemetry counts each new timestamp once.  The programs are the *)
(* compiler's, byte for byte; what each instruction finds in its registers *)
(* follows from where in its program the process is.                       *)
(***************************************************************************)
EXTENDS MbFlow, MbFirmwareProofs

USE VmAssumption, MailboxAssumption, SchedulerAssumption, PayloadAssumption

-----------------------------------------------------------------------------
(* The bytes of the programs.                                              *)

\* The part's bytes are in the program from the offset on.
Has(code, at, part) == \A k \in 1..Len(part) : code[at + k] = part[k]

\* A string of n bytes.
Bytes(s, n) == s \in Seq(Int) /\ Len(s) = n

\* Two strings, one behind the other.
LEMMA Joined ==
  ASSUME NEW s, NEW t, NEW n \in Nat, NEW m \in Nat, Bytes(s, n), Bytes(t, m)
  PROVE  Bytes(s \o t, n + m) /\ Has(s \o t, 0, s) /\ Has(s \o t, n, t)
<1>1. s \in Seq(Int) /\ t \in Seq(Int) /\ Len(s) = n /\ Len(t) = m
  BY DEF Bytes
<1>2. /\ s \o t \in Seq(Int)
      /\ Len(s \o t) = Len(s) + Len(t)
      /\ \A k \in 1..Len(s) : (s \o t)[k] = s[k]
      /\ \A k \in 1..Len(t) : (s \o t)[Len(s) + k] = t[k]
  <2>1. \A u, v \in Seq(Int) :
          /\ u \o v \in Seq(Int)
          /\ Len(u \o v) = Len(u) + Len(v)
          /\ \A k \in 1..Len(u) : (u \o v)[k] = u[k]
          /\ \A k \in 1..Len(v) : (u \o v)[Len(u) + k] = v[k]
    BY ConcatProperties
  <2> QED BY <1>1, <2>1
<1>3. \A k \in 1..n : 0 + k = k
  OBVIOUS
<1> QED BY <1>1, <1>2, <1>3 DEF Has, Bytes

\* What is in a string is in one that begins with it, and behind another it
\* is moved.
LEMMA Within ==
  ASSUME NEW code, NEW at \in Nat, NEW s, NEW n \in Nat, Bytes(s, n), Has(code, at, s),
         NEW k \in Nat, NEW t, NEW m \in Nat, Bytes(t, m), Has(s, k, t), k + m <= n
  PROVE  Has(code, at + k, t)
<1>1. SUFFICES ASSUME NEW j \in 1..Len(t)
               PROVE  code[(at + k) + j] = t[j]
  BY DEF Has
<1>2. Len(t) = m /\ Len(s) = n
  BY DEF Bytes
<1>3. k + j \in 1..n /\ at + (k + j) = (at + k) + j
  BY <1>2
<1>4. code[at + (k + j)] = s[k + j] /\ s[k + j] = t[j]
  BY <1>2, <1>3 DEF Has
<1> QED BY <1>3, <1>4

LEMMA Beginning ==
  ASSUME NEW code, NEW s, NEW n \in Nat, Bytes(s, n), Has(code, 0, s),
         NEW k \in Nat, NEW t, NEW m \in Nat, Bytes(t, m), Has(s, k, t), k + m <= n
  PROVE  Has(code, k, t)
<1>1. Has(code, 0 + k, t) /\ 0 + k = k
  BY Within
<1> QED BY <1>1

\* Eight instructions of six bytes.
LEMMA EightParts ==
  ASSUME NEW a, NEW b, NEW c, NEW d, NEW e, NEW f, NEW g, NEW h,
         Bytes(a, 6), Bytes(b, 6), Bytes(c, 6), Bytes(d, 6),
         Bytes(e, 6), Bytes(f, 6), Bytes(g, 6), Bytes(h, 6)
  PROVE  LET all == a \o b \o c \o d \o e \o f \o g \o h
         IN  /\ Bytes(all, 48)
             /\ Has(all, 0, a) /\ Has(all, 6, b) /\ Has(all, 12, c) /\ Has(all, 18, d)
             /\ Has(all, 24, e) /\ Has(all, 30, f) /\ Has(all, 36, g) /\ Has(all, 42, h)
<1> DEFINE s2 == a \o b
           s3 == s2 \o c
           s4 == s3 \o d
           s5 == s4 \o e
           s6 == s5 \o f
           s7 == s6 \o g
           all == s7 \o h
<1>1. Bytes(s2, 12) /\ Has(s2, 0, a) /\ Has(s2, 6, b)
  BY Joined
<1> HIDE DEF s2
<1>2. Bytes(s3, 18) /\ Has(s3, 0, s2) /\ Has(s3, 12, c)
  BY <1>1, Joined
<1> HIDE DEF s3
<1>3. Bytes(s4, 24) /\ Has(s4, 0, s3) /\ Has(s4, 18, d)
  BY <1>2, Joined
<1> HIDE DEF s4
<1>4. Bytes(s5, 30) /\ Has(s5, 0, s4) /\ Has(s5, 24, e)
  BY <1>3, Joined
<1> HIDE DEF s5
<1>5. Bytes(s6, 36) /\ Has(s6, 0, s5) /\ Has(s6, 30, f)
  BY <1>4, Joined
<1> HIDE DEF s6
<1>6. Bytes(s7, 42) /\ Has(s7, 0, s6) /\ Has(s7, 36, g)
  BY <1>5, Joined
<1> HIDE DEF s7
<1>7. Bytes(all, 48) /\ Has(all, 0, s7) /\ Has(all, 42, h)
  BY <1>6, Joined
<1> HIDE DEF all
<1>8. Has(all, 0, s6) /\ Has(all, 36, g)
  BY <1>5, <1>6, <1>7, Beginning
<1>9. Has(all, 0, s5) /\ Has(all, 30, f)
  BY <1>4, <1>5, <1>8, Beginning
<1>10. Has(all, 0, s4) /\ Has(all, 24, e)
  BY <1>3, <1>4, <1>9, Beginning
<1>11. Has(all, 0, s3) /\ Has(all, 18, d)
  BY <1>2, <1>3, <1>10, Beginning
<1>12. Has(all, 0, s2) /\ Has(all, 12, c)
  BY <1>1, <1>2, <1>11, Beginning
<1>13. Has(all, 0, a) /\ Has(all, 6, b)
  BY <1>1, <1>12, Beginning
<1> QED BY <1>7, <1>8, <1>9, <1>10, <1>11, <1>12, <1>13
        DEF all, s7, s6, s5, s4, s3, s2

\* The four bytes of an operand, and the six of a CONST_I32.
LEMMA OperandBytesOf ==
  ASSUME NEW v \in Int
  PROVE  /\ Bytes(i32le(v), 4)
         /\ \A r \in Int : /\ Bytes(const_i32(r, v), 6)
                           /\ Has(const_i32(r, v), 0, <<OP_CONST_I32, r>>)
                           /\ Has(const_i32(r, v), 2, i32le(v))
<1>1. Bytes(i32le(v), 4)
  <2>1. /\ v % 256 \in Int /\ (v \div 256) % 256 \in Int
        /\ (v \div 65536) % 256 \in Int /\ (v \div 16777216) % 256 \in Int
    OBVIOUS
  <2> QED BY <2>1 DEF i32le, Bytes
<1>2. ASSUME NEW r \in Int
      PROVE  /\ Bytes(const_i32(r, v), 6)
             /\ Has(const_i32(r, v), 0, <<OP_CONST_I32, r>>)
             /\ Has(const_i32(r, v), 2, i32le(v))
  <2> DEFINE head == <<OP_CONST_I32, r>>
             tail == i32le(v)
  <2>1. Bytes(head, 2) /\ Bytes(tail, 4)
    BY <1>1 DEF Bytes, OP_CONST_I32
  <2> HIDE DEF head, tail
  <2>2. Bytes(head \o tail, 6) /\ Has(head \o tail, 0, head) /\ Has(head \o tail, 2, tail)
    BY <2>1, Joined
  <2> QED BY <2>2 DEF head, tail, const_i32
<1> QED BY <1>1, <1>2

\* Where the sensor's jump is.
JumpAt(s) == IF s.poll_ms = 0 THEN 67 ELSE 68

\* The loop of a sensor.
LEMMA BodyBytes ==
  ASSUME NEW poll_ms
  PROVE  /\ Bytes(SensorBody(poll_ms), IF poll_ms = 0 THEN 19 ELSE 20)
         /\ Has(SensorBody(poll_ms), 0, <<OP_CALL_BIF, BIF_I2C_READ_REG, 3, 0, 1, 2, 7>>)
         /\ Has(SensorBody(poll_ms), 7, <<OP_CALL_BIF, BIF_MONOTONIC_MS, 0, 9>>)
         /\ Has(SensorBody(poll_ms), 11, <<OP_SEND, 3, 4, 5, 7, 8, 8>>)
         /\ Has(SensorBody(poll_ms), 18,
                IF poll_ms = 0 THEN <<OP_YIELD>> ELSE <<OP_SLEEP_MS, 6>>)
<1> DEFINE a == <<OP_CALL_BIF, BIF_I2C_READ_REG, 3, 0, 1, 2, 7>>
           b == <<OP_CALL_BIF, BIF_MONOTONIC_MS, 0, 9>>
           c == <<OP_SEND, 3, 4, 5, 7, 8, 8>>
           d == IF poll_ms = 0 THEN <<OP_YIELD>> ELSE <<OP_SLEEP_MS, 6>>
           n == IF poll_ms = 0 THEN 1 ELSE 2
           s2 == a \o b
           s3 == s2 \o c
           s4 == s3 \o d
<1>1. Bytes(a, 7) /\ Bytes(b, 4) /\ Bytes(c, 7) /\ Bytes(d, n) /\ n \in Nat
  BY DEF Bytes, OP_CALL_BIF, BIF_I2C_READ_REG, BIF_MONOTONIC_MS, OP_SEND, OP_YIELD, OP_SLEEP_MS
<1>2. SensorBody(poll_ms) = s4
  BY DEF SensorBody
<1> HIDE DEF a, b, c, d
<1>3. Bytes(s2, 11) /\ Has(s2, 0, a) /\ Has(s2, 7, b)
  BY <1>1, Joined
<1> HIDE DEF s2
<1>4. Bytes(s3, 18) /\ Has(s3, 0, s2) /\ Has(s3, 11, c)
  BY <1>1, <1>3, Joined
<1> HIDE DEF s3
<1>5. Bytes(s4, 18 + n) /\ Has(s4, 0, s3) /\ Has(s4, 18, d)
  <2> HIDE DEF n
  <2> QED BY <1>1, <1>4, Joined
<1> HIDE DEF s4
<1>6. 18 + n = IF poll_ms = 0 THEN 19 ELSE 20
  OBVIOUS
<1> HIDE DEF n
<1>7. Has(s4, 0, s2) /\ Has(s4, 11, c)
  BY <1>1, <1>3, <1>4, <1>5, Beginning
<1>8. Has(s4, 0, a) /\ Has(s4, 7, b)
  BY <1>1, <1>3, <1>7, Beginning
<1> QED BY <1>2, <1>5, <1>6, <1>7, <1>8 DEF a, b, c, d

\* A loop with its jump behind what is executed once.
LEMMA LoopBytes ==
  ASSUME NEW init, NEW n \in Nat, Bytes(init, n), NEW body, NEW m \in Nat, Bytes(body, m),
         NEW code, code = init \o body \o <<OP_JMP>> \o i32le(-(m + 5))
  PROVE  /\ Bytes(code, n + m + 5)
         /\ Has(code, 0, init)
         /\ Has(code, n, body)
         /\ Has(code, n + m, <<OP_JMP>>)
         /\ Has(code, n + m + 1, i32le(-(m + 5)))
<1> DEFINE jump == <<OP_JMP>>
           off  == i32le(-(m + 5))
           s1   == init \o body
           s2   == s1 \o jump
<1>1. Bytes(jump, 1) /\ Bytes(off, 4)
  <2>1. -(m + 5) \in Int
    OBVIOUS
  <2> QED BY <2>1, OperandBytesOf DEF Bytes, OP_JMP
<1>2. code = s2 \o off
  OBVIOUS
<1> HIDE DEF jump, off
<1>3. Bytes(s1, n + m) /\ Has(s1, 0, init) /\ Has(s1, n, body)
  BY Joined
<1> HIDE DEF s1
<1>4. n + m \in Nat /\ n + m + 1 \in Nat
  OBVIOUS
<1>5. Bytes(s2, n + m + 1) /\ Has(s2, 0, s1) /\ Has(s2, n + m, jump)
  BY <1>1, <1>3, <1>4, Joined
<1> HIDE DEF s2
<1>6. Bytes(code, (n + m + 1) + 4) /\ Has(code, 0, s2) /\ Has(code, n + m + 1, off)
  BY <1>1, <1>2, <1>4, <1>5, Joined
<1>7. (n + m + 1) + 4 = n + m + 5
  OBVIOUS
<1>8. Has(code, 0, s1)
  <2>1. 0 + (n + m) <= n + m + 1
    OBVIOUS
  <2> QED BY <1>3, <1>4, <1>5, <1>6, <2>1, Beginning
<1>9. Has(code, n + m, jump)
  <2>1. (n + m) + 1 <= n + m + 1
    OBVIOUS
  <2> QED BY <1>1, <1>4, <1>5, <1>6, <2>1, Beginning
<1>10. Has(code, 0, init) /\ Has(code, n, body)
  <2>1. 0 + n <= n + m /\ n + m <= n + m
    OBVIOUS
  <2> QED BY <1>3, <1>4, <1>8, <2>1, Beginning
<1> QED BY <1>6, <1>7, <1>8, <1>9, <1>10 DEF jump, off

\* The program of a sensor.
LEMMA SensorBytes ==
  ASSUME NEW s, ValidSensor(s), NEW channel \in Int, NEW pid \in Int,
         NEW code, code = compile_sensor(s, channel, pid)
  PROVE  /\ Bytes(code, JumpAt(s) + 5)
         /\ Has(code, 0, const_i32(0, s.bus)) /\ Has(code, 6, const_i32(1, s.addr))
         /\ Has(code, 12, const_i32(2, s.reg)) /\ Has(code, 18, const_i32(3, pid))
         /\ Has(code, 24, const_i32(4, CMD_PWM_SET_DUTY))
         /\ Has(code, 30, const_i32(5, channel))
         /\ Has(code, 36, const_i32(6, s.poll_ms)) /\ Has(code, 42, const_i32(8, 0))
         /\ Has(code, 48, <<OP_CALL_BIF, BIF_I2C_READ_REG, 3, 0, 1, 2, 7>>)
         /\ Has(code, 55, <<OP_CALL_BIF, BIF_MONOTONIC_MS, 0, 9>>)
         /\ Has(code, 59, <<OP_SEND, 3, 4, 5, 7, 8, 8>>)
         /\ Has(code, 66, IF s.poll_ms = 0 THEN <<OP_YIELD>> ELSE <<OP_SLEEP_MS, 6>>)
         /\ Has(code, JumpAt(s), <<OP_JMP>>)
         /\ Has(code, JumpAt(s) + 1, i32le(48 - (JumpAt(s) + 5)))
<1> DEFINE a == const_i32(0, s.bus)
           b == const_i32(1, s.addr)
           c == const_i32(2, s.reg)
           d == const_i32(3, pid)
           e == const_i32(4, CMD_PWM_SET_DUTY)
           f == const_i32(5, channel)
           g == const_i32(6, s.poll_ms)
           h == const_i32(8, 0)
           init == a \o b \o c \o d \o e \o f \o g \o h
           body == SensorBody(s.poll_ms)
           m == IF s.poll_ms = 0 THEN 19 ELSE 20
<1>1. /\ Bytes(a, 6) /\ Bytes(b, 6) /\ Bytes(c, 6) /\ Bytes(d, 6)
      /\ Bytes(e, 6) /\ Bytes(f, 6) /\ Bytes(g, 6) /\ Bytes(h, 6)
  <2>1. s.bus \in Int /\ s.addr \in Int /\ s.reg \in Int /\ s.poll_ms \in Int
    BY DEF ValidSensor
  <2>2. \A r, v \in Int : Bytes(const_i32(r, v), 6)
    BY OperandBytesOf
  <2> QED BY <2>1, <2>2 DEF CMD_PWM_SET_DUTY
<1>2. code = init \o body \o <<OP_JMP>> \o i32le(-(Len(body) + 5))
  BY DEF compile_sensor
<1> HIDE DEF a, b, c, d, e, f, g, h
<1>3. /\ Bytes(init, 48)
      /\ Has(init, 0, a) /\ Has(init, 6, b) /\ Has(init, 12, c) /\ Has(init, 18, d)
      /\ Has(init, 24, e) /\ Has(init, 30, f) /\ Has(init, 36, g) /\ Has(init, 42, h)
  BY <1>1, EightParts
<1> HIDE DEF init
<1>4. Bytes(body, m) /\ Len(body) = m /\ m \in Nat
  BY BodyBytes DEF Bytes
<1>5. JumpAt(s) = 48 + m /\ 48 - ((48 + m) + 5) = -(m + 5)
  BY DEF JumpAt
<1> HIDE DEF m
<1>6. /\ Has(code, 0, init) /\ Has(code, 48, body)
      /\ Bytes(code, 48 + m + 5)
      /\ Has(code, 48 + m, <<OP_JMP>>) /\ Has(code, 48 + m + 1, i32le(-(m + 5)))
  <2> HIDE DEF body
  <2> QED BY <1>2, <1>3, <1>4, LoopBytes
<1>7. /\ Has(code, 0, a) /\ Has(code, 6, b) /\ Has(code, 12, c) /\ Has(code, 18, d)
      /\ Has(code, 24, e) /\ Has(code, 30, f) /\ Has(code, 36, g) /\ Has(code, 42, h)
  BY <1>1, <1>3, <1>6, Beginning
<1> DEFINE ra == <<OP_CALL_BIF, BIF_I2C_READ_REG, 3, 0, 1, 2, 7>>
           rb == <<OP_CALL_BIF, BIF_MONOTONIC_MS, 0, 9>>
           rc == <<OP_SEND, 3, 4, 5, 7, 8, 8>>
           rd == IF s.poll_ms = 0 THEN <<OP_YIELD>> ELSE <<OP_SLEEP_MS, 6>>
<1>8. /\ Bytes(ra, 7) /\ Bytes(rb, 4) /\ Bytes(rc, 7)
      /\ \E n \in Nat : Bytes(rd, n) /\ 18 + n <= m
      /\ 7 <= m /\ 7 + 4 <= m /\ 11 + 7 <= m
  BY DEF m, Bytes, OP_CALL_BIF, BIF_I2C_READ_REG, BIF_MONOTONIC_MS, OP_SEND, OP_YIELD, OP_SLEEP_MS
<1>9. /\ Has(body, 0, ra) /\ Has(body, 7, rb) /\ Has(body, 11, rc) /\ Has(body, 18, rd)
  BY BodyBytes
<1> HIDE DEF ra, rb, rc, rd, body
<1>10. Has(code, 48 + 0, ra) /\ Has(code, 48 + 7, rb) /\ Has(code, 48 + 11, rc)
       /\ Has(code, 48 + 18, rd)
  <2>1. Has(code, 48 + 0, ra)
    BY <1>4, <1>6, <1>8, <1>9, Within, 0 + 7 = 7
  <2>2. Has(code, 48 + 7, rb)
    BY <1>4, <1>6, <1>8, <1>9, Within, 7 + 4 = 11
  <2>3. Has(code, 48 + 11, rc)
    BY <1>4, <1>6, <1>8, <1>9, Within, 11 + 7 = 18
  <2>4. Has(code, 48 + 18, rd)
    <3>1. PICK n \in Nat : Bytes(rd, n) /\ 18 + n <= m
      BY <1>8
    <3> QED BY <1>4, <1>6, <1>9, <3>1, Within
  <2> QED BY <2>1, <2>2, <2>3, <2>4
<1>11. Has(code, 48, ra) /\ Has(code, 55, rb) /\ Has(code, 59, rc) /\ Has(code, 66, rd)
  BY <1>10
<1> QED BY <1>5, <1>6, <1>7, <1>11 DEF a, b, c, d, e, f, g, h, ra, rb, rc, rd

\* The program of the actuator.
LEMMA ActuatorBytes ==
  ASSUME NEW code, code = compile_actuator
  PROVE  /\ Bytes(code, 17)
         /\ Has(code, 0, <<OP_RECV_CMD, 0, 1, 2, 3, 4>>)
         /\ Has(code, 6, <<OP_CALL_BIF, BIF_PWM_SET_DUTY, 2, 1, 2, 5>>)
         /\ Has(code, 12, <<OP_JMP>>)
         /\ Has(code, 13, i32le(-17))
<1> DEFINE a == <<OP_RECV_CMD, 0, 1, 2, 3, 4>>
           b == <<OP_CALL_BIF, BIF_PWM_SET_DUTY, 2, 1, 2, 5>>
           body == a \o b
           jump == <<OP_JMP>>
           off == i32le(-17)
           s2 == body \o jump
<1>1. Bytes(a, 6) /\ Bytes(b, 6) /\ Bytes(jump, 1) /\ Bytes(off, 4)
  <2>1. -17 \in Int
    OBVIOUS
  <2> QED BY <2>1, OperandBytesOf
          DEF Bytes, OP_RECV_CMD, OP_CALL_BIF, BIF_PWM_SET_DUTY, OP_JMP
<1>2. code = s2 \o i32le(-(Len(body) + 5))
  BY DEF compile_actuator
<1> HIDE DEF a, b, jump, off
<1>3. Bytes(body, 12) /\ Has(body, 0, a) /\ Has(body, 6, b)
  BY <1>1, Joined
<1> HIDE DEF body
<1>4. code = s2 \o off
  <2>1. Len(body) = 12 /\ -(12 + 5) = -17
    BY <1>3 DEF Bytes
  <2> QED BY <1>2, <2>1 DEF off
<1>5. Bytes(s2, 13) /\ Has(s2, 0, body) /\ Has(s2, 12, jump)
  BY <1>1, <1>3, Joined
<1> HIDE DEF s2
<1>6. Bytes(code, 17) /\ Has(code, 0, s2) /\ Has(code, 13, off)
  BY <1>1, <1>4, <1>5, Joined
<1>7. Has(code, 0, body) /\ Has(code, 12, jump)
  BY <1>1, <1>3, <1>5, <1>6, Beginning
<1>8. Has(code, 0, a) /\ Has(code, 6, b)
  BY <1>1, <1>3, <1>7, Beginning
<1> QED BY <1>6, <1>7, <1>8 DEF a, b, jump, off

-----------------------------------------------------------------------------
(* Small integers, in bytes and in registers.                              *)

\* What fits into a payload is read as it was written.
LEMMA PayloadKeeps ==
  ASSUME NEW v \in (-PayloadHalf)..(PayloadHalf - 1)
  PROVE  GET_SMALLINT(MAKE_SMALLINT(v)) = v
<1>1. PayloadHalf \in Nat \ {0} /\ 2 * PayloadHalf \in Nat \ {0}
  OBVIOUS
<1>2. CASE v >= 0
  <2>1. v % (2 * PayloadHalf) = v
    BY <1>1, <1>2
  <2> QED BY <1>1, <1>2, <2>1 DEF Payload, MAKE_SMALLINT, GET_SMALLINT
<1>3. CASE v < 0
  <2>1. v % (2 * PayloadHalf) = v + 2 * PayloadHalf
    BY <1>1, <1>3
  <2> QED BY <1>1, <1>3, <2>1 DEF Payload, MAKE_SMALLINT, GET_SMALLINT
<1> QED BY <1>2, <1>3

\* Reading back what the compiler wrote, for constants and jumps.
LEMMA OperandRead ==
  ASSUME NEW code, NEW at \in Nat, NEW v \in (-256)..255, Has(code, at, i32le(v))
  PROVE  I32At(code, at) = v
<1>1. /\ code[at + 1] = v % 256 /\ code[at + 2] = (v \div 256) % 256
      /\ code[at + 3] = (v \div 65536) % 256 /\ code[at + 4] = (v \div 16777216) % 256
  BY DEF Has, i32le
<1>2. CASE v >= 0
  <2>1. /\ v % 256 = v /\ (v \div 256) % 256 = 0
        /\ (v \div 65536) % 256 = 0 /\ (v \div 16777216) % 256 = 0
    BY <1>2
  <2> QED BY <1>1, <2>1 DEF I32At
<1>3. CASE v < 0
  <2>1. /\ v % 256 = v + 256 /\ (v \div 256) % 256 = 255
        /\ (v \div 65536) % 256 = 255 /\ (v \div 16777216) % 256 = 255
    BY <1>3
  <2> QED BY <1>1, <2>1 DEF I32At
<1> QED BY <1>2, <1>3

-----------------------------------------------------------------------------
(* The compiler's instructions.                                            *)

\* The value of a register.
Reg(p, r) == GET_SMALLINT(regs[p][r])

\* p goes on at an offset, without a fault.
Goes(p, at) == /\ pc' = [pc EXCEPT ![p] = at]
               /\ UNCHANGED <<program, halted, clock>>
               /\ runRc' \in {runRc, MB_OK}

\* One register of p changes.
Sets(p, r) == \A q \in Regs \ {r} : regs'[p][q] = regs[p][q]

\* The instruction that p is at: its bytes are in the program.
At(p, part) == \E n \in Nat : Bytes(Text(p), n) /\ pc[p] + Len(part) <= n
                              /\ Has(Text(p), pc[p], part)

\* Byte k of it.
LEMMA AtBytes ==
  ASSUME MachineOK, NEW p \in Pids, running = p, NEW part \in Seq(Int), At(p, part)
  PROVE  /\ \A k \in 0..(Len(part) - 1) : Byte(p, k) = part[k + 1] /\ Fetchable(p, k)
         /\ \A k : ByteAt(Text(p), pc[p], k) = Byte(p, k)
         /\ \A k : Inside(Text(p), pc[p], k) <=> Fetchable(p, k)
         /\ pc[p] \in Nat /\ Size(p) = Len(Text(p)) /\ Size(p) \in Nat
<1>1. /\ pc[p] \in Nat /\ Size(p) \in Nat /\ Size(p) = Len(Text(p))
      /\ \A k : ByteAt(Text(p), pc[p], k) = Byte(p, k)
      /\ \A k : Inside(Text(p), pc[p], k) <=> Fetchable(p, k)
  BY MachineFacts DEF ByteAt, Byte, Inside, Fetchable, Text, Size
<1>2. /\ pc[p] + Len(part) <= Size(p)
      /\ \A k \in 1..Len(part) : Text(p)[pc[p] + k] = part[k]
  BY <1>1 DEF At, Bytes, Has
<1>3. ASSUME NEW k \in 0..(Len(part) - 1)
      PROVE  Byte(p, k) = part[k + 1] /\ Fetchable(p, k)
  <2> DEFINE m == Len(part)
  <2>1. /\ m \in Nat /\ k \in 0..(m - 1) /\ pc[p] + m <= Size(p)
        /\ pc[p] \in Nat /\ Size(p) \in Nat
    BY <1>1, <1>2
  <2> HIDE DEF m
  <2>2. k + 1 \in 1..m /\ k \in Nat
    BY <2>1
  <2>3. pc[p] + k < Size(p) /\ pc[p] + (k + 1) = pc[p] + k + 1
    BY <2>1, <2>2
  <2> QED BY <1>2, <2>2, <2>3 DEF Byte, Text, Fetchable, m
<1> QED BY <1>1, <1>3

\* An instruction with a fixed number of operands is whole.
LEMMA FixedWhole ==
  ASSUME MachineOK, NEW p \in Pids, running = p, NEW part \in Seq(Int), At(p, part),
         NEW op \in FixedOps, Byte(p, 0) = op, Fetchable(p, OperandBytes(op)),
         \A k \in RegisterOperands(op) : ValidReg(Byte(p, k))
  PROVE  Whole(Text(p), pc[p])
<1>1. /\ \A k : ByteAt(Text(p), pc[p], k) = Byte(p, k)
      /\ \A k : Inside(Text(p), pc[p], k) <=> Fetchable(p, k)
      /\ pc[p] \in Nat /\ Size(p) = Len(Text(p)) /\ Size(p) \in Nat
  BY AtBytes
<1>2. Fetchable(p, 0)
  <2>1. OperandBytes(op) \in Nat
    BY OperandBytesType
  <2> QED BY <1>1, <2>1 DEF Fetchable
<1>3. pc[p] \in 0..(Len(Text(p)) - 1)
  BY <1>1, <1>2 DEF Fetchable
<1> QED BY <1>1, <1>3 DEF Whole, NameRegisters

\* A decoded instruction that sets one register.
LEMMA RetiresTo ==
  ASSUME MachineOK, NEW p \in Pids, NEW at, NEW r \in Regs, NEW t,
         Retire(p, at, [regs EXCEPT ![p][r] = t])
  PROVE  Goes(p, at) /\ Sets(p, r) /\ regs'[p][r] = t /\ UNCHANGED mailbox
<1>1. regs \in RegFiles
  BY DEF MachineOK
<1>2. regs' = [regs EXCEPT ![p][r] = t]
  BY DEF Retire, RetireUsing
<1>3. Sets(p, r) /\ regs'[p][r] = t
  BY <1>1, <1>2 DEF Sets, RegFiles
<1>4. Goes(p, at) /\ UNCHANGED mailbox
  BY DEF Retire, RetireUsing, CountReduction, Goes
<1> QED BY <1>3, <1>4

\* CONST_I32 loads its register.
LEMMA ConstRuns ==
  ASSUME MachineOK, NEW p \in Pids, running = p, Step(p), RegCount >= 10, PayloadHalf > 1000,
         NEW r \in 0..9, NEW v \in Int, At(p, const_i32(r, v))
  PROVE  /\ Goes(p, pc[p] + 6) /\ Sets(p, r) /\ UNCHANGED mailbox
         /\ v \in 0..255 => Reg(p, r)' = v
         /\ Byte(p, 0) # MB_OP_CALL_BIF
<1> DEFINE part == const_i32(r, v)
<1>1. /\ part \in Seq(Int) /\ Len(part) = 6
      /\ Has(part, 0, <<OP_CONST_I32, r>>) /\ Has(part, 2, i32le(v))
  <2>1. r \in Int
    OBVIOUS
  <2> QED BY <2>1, OperandBytesOf DEF Bytes
<1>2. part[1] = OP_CONST_I32 /\ part[2] = r
  <2>1. <<OP_CONST_I32, r>>[1] = OP_CONST_I32 /\ <<OP_CONST_I32, r>>[2] = r
        /\ Len(<<OP_CONST_I32, r>>) = 2
    OBVIOUS
  <2>2. part[0 + 1] = OP_CONST_I32 /\ part[0 + 2] = r
    BY <1>1, <2>1 DEF Has
  <2> QED BY <2>2
<1> HIDE DEF part
<1>3. /\ Byte(p, 0) = MB_OP_CONST_I32 /\ Byte(p, 1) = r /\ Fetchable(p, 5)
      /\ pc[p] \in Nat
  <2>1. /\ \A k \in 0..5 : Byte(p, k) = part[k + 1] /\ Fetchable(p, k)
        /\ pc[p] \in Nat
    <3>1. At(p, part)
      BY DEF part
    <3>2. \A k \in 0..(Len(part) - 1) : Byte(p, k) = part[k + 1] /\ Fetchable(p, k)
      BY <1>1, <3>1, AtBytes
    <3> QED BY <1>1, <3>1, <3>2, AtBytes
  <2>2. Byte(p, 0) = part[0 + 1] /\ Byte(p, 1) = part[1 + 1] /\ Fetchable(p, 5)
    BY <2>1
  <2> QED BY <1>2, <2>1, <2>2 DEF OP_CONST_I32, MB_OP_CONST_I32
<1>4. /\ MB_OP_CONST_I32 \in FixedOps /\ OperandBytes(MB_OP_CONST_I32) = 5
      /\ RegisterOperands(MB_OP_CONST_I32) = {1}
  BY OpcodeTable
<1>5. r \in Regs /\ ValidReg(r)
  BY DEF Regs, ValidReg
<1>6. Whole(Text(p), pc[p])
  <2>1. At(p, part)
    BY DEF part
  <2> QED BY <1>1, <1>3, <1>4, <1>5, <2>1, FixedWhole
<1>7. Retire(p, pc[p] + 6, [regs EXCEPT ![p][r] = MAKE_SMALLINT(I32(p, 2))])
  <2>1. ConstI32(p)
    BY <1>3, <1>6, OpcodeActs
  <2>2. AfterOperands(p, MB_OP_CONST_I32) = pc[p] + 6
    BY <1>3, <1>4 DEF AfterOperands
  <2> QED BY <1>3, <2>1, <2>2 DEF ConstI32, SetReg
<1>8. ASSUME v \in 0..255 PROVE Reg(p, r)' = v
  <2>1. Has(Text(p), pc[p] + 2, i32le(v))
    <3>1. PICK n \in Nat : Bytes(Text(p), n) /\ Has(Text(p), pc[p], part)
      BY DEF At, part
    <3>2. Bytes(part, 6) /\ Bytes(i32le(v), 4)
      BY <1>1, OperandBytesOf DEF Bytes
    <3> QED BY <1>1, <1>3, <3>1, <3>2, Within, 2 + 4 = 6
  <2>2. I32(p, 2) = v
    BY <1>3, <1>8, <2>1, OperandRead DEF I32, Text
  <2>3. v \in (-PayloadHalf)..(PayloadHalf - 1)
    BY <1>8
  <2>4. regs'[p][r] = MAKE_SMALLINT(v)
    <3>1. regs'[p][r] = MAKE_SMALLINT(I32(p, 2))
      BY <1>5, <1>7 DEF Retire, RetireUsing, MachineOK, RegFiles
    <3> QED BY <2>2, <3>1
  <2> QED BY <2>3, <2>4, PayloadKeeps DEF Reg
<1>9. Byte(p, 0) # MB_OP_CALL_BIF
  BY <1>3, <1>4, OpcodesDiffer
<1> QED BY <1>5, <1>7, <1>8, <1>9, RetiresTo

\* CALL_BIF with arguments that mb_call_bif accepts.
LEMMA CallRuns ==
  ASSUME MachineOK, NEW p \in Pids, running = p, Step(p), Whole(Text(p), pc[p]),
         Byte(p, 0) = MB_OP_CALL_BIF,
         NEW argc, argc = CallBifArgc(p),
         BifArgumentsValid(Byte(p, 1), [i \in 1..argc |-> RegInt(p, i + 2)])
  PROVE  /\ Goes(p, pc[p] + (argc + 3) + 1)
         /\ Byte(p, argc + 3) \in Regs => Sets(p, Byte(p, argc + 3))
         /\ UNCHANGED mailbox
         /\ \E result \in BifResults(Byte(p, 1)) :
              Byte(p, argc + 3) \in Regs =>
                regs'[p][Byte(p, argc + 3)] = MAKE_SMALLINT(result)
         /\ Calls(p, Byte(p, 1))
<1> DEFINE arg == [i \in 1..argc |-> RegInt(p, i + 2)]
           dst == argc + 3
           rc  == BifStatus(Byte(p, 1), arg, Byte(p, dst))
<1>1. CallBif(p)
  BY OpcodeActs
<1>2. /\ Byte(p, 1) \in Bifs /\ argc = BifArgc(Byte(p, 1)) /\ argc \in 0..4
      /\ ValidReg(Byte(p, dst))
  BY WholeFacts, OpcodesDiffer
<1>3. rc = MB_OK
  <2>1. Len(arg) = argc
    <3> DEFINE S == {RegInt(p, i + 2) : i \in 1..argc}
    <3>1. argc \in Nat
      BY <1>2
    <3>2. arg \in [1..argc -> S]
      OBVIOUS
    <3>3. arg \in Seq(S)
      <4> HIDE DEF S, arg
      <4> QED BY <3>1, <3>2, SeqDef
    <3>4. DOMAIN arg = 1..argc
      OBVIOUS
    <3> HIDE DEF S, arg
    <3> QED BY <3>1, <3>3, <3>4, LenProperties
  <2> HIDE DEF arg
  <2> QED BY <1>2, <2>1 DEF BifStatus, arg
<1>4. /\ \E result \in BifResults(Byte(p, 1)) :
           regs' = SetReg(p, dst, MAKE_SMALLINT(result))
      /\ pc' = [pc EXCEPT ![p] = pc[p] + dst + 1]
      /\ CountReduction(p, reductions[p])
      /\ UNCHANGED <<state, program, mailbox, halted, sleepUntil, clock>>
  BY <1>1, <1>3 DEF CallBif
<1>5. Goes(p, pc[p] + dst + 1)
  BY <1>4 DEF Goes, CountReduction
<1>6. Calls(p, Byte(p, 1))
  <2>1. running' = p \/ runRc' = MB_OK
    BY <1>4 DEF CountReduction
  <2> QED BY <1>1, <2>1 DEF Calls, CallBif
<1>7. PICK result \in BifResults(Byte(p, 1)) : regs' = SetReg(p, dst, MAKE_SMALLINT(result))
  BY <1>4
<1>8. Byte(p, dst) \in Regs =>
        /\ Sets(p, Byte(p, dst))
        /\ regs'[p][Byte(p, dst)] = MAKE_SMALLINT(result)
  BY <1>7 DEF SetReg, Sets, MachineOK, RegFiles
<1> QED BY <1>4, <1>5, <1>6, <1>7, <1>8

\* p is at a CALL_BIF of bif with argc arguments, as the compiler writes it.
AtCall(p, part, bif, argc) ==
  /\ part \in Seq(Int) /\ At(p, part)
  /\ bif \in Bifs /\ argc \in 0..4 /\ argc = BifArgc(bif)
  /\ Len(part) = argc + 4
  /\ part[1] = MB_OP_CALL_BIF /\ part[2] = bif /\ part[3] = argc
  /\ \A k \in 4..(argc + 4) : part[k] \in 0..9

\* A CALL_BIF of the compiler's is whole.
LEMMA CallWhole ==
  ASSUME MachineOK, NEW p \in Pids, running = p, RegCount >= 10,
         NEW part, NEW bif, NEW argc, AtCall(p, part, bif, argc)
  PROVE  /\ Whole(Text(p), pc[p])
         /\ Byte(p, 0) = MB_OP_CALL_BIF /\ Byte(p, 1) = bif /\ CallBifArgc(p) = argc
         /\ \A k \in 3..(argc + 3) : Byte(p, k) = part[k + 1] /\ Byte(p, k) \in Regs
         /\ pc[p] \in Nat
<1>0. /\ part \in Seq(Int) /\ At(p, part)
      /\ bif \in Bifs /\ argc \in 0..4 /\ argc = BifArgc(bif)
      /\ Len(part) = argc + 4
      /\ part[1] = MB_OP_CALL_BIF /\ part[2] = bif /\ part[3] = argc
      /\ \A k \in 4..(argc + 4) : part[k] \in 0..9
  BY DEF AtCall
<1>1. /\ \A k \in 0..(argc + 3) : Byte(p, k) = part[k + 1] /\ Fetchable(p, k)
      /\ \A k : ByteAt(Text(p), pc[p], k) = Byte(p, k)
      /\ \A k : Inside(Text(p), pc[p], k) <=> Fetchable(p, k)
      /\ pc[p] \in Nat /\ Size(p) = Len(Text(p)) /\ Size(p) \in Nat
  <2>1. Len(part) - 1 = argc + 3
    BY <1>0
  <2>2. \A k \in 0..(Len(part) - 1) : Byte(p, k) = part[k + 1] /\ Fetchable(p, k)
    BY <1>0, AtBytes
  <2>3. /\ \A k : ByteAt(Text(p), pc[p], k) = Byte(p, k)
        /\ \A k : Inside(Text(p), pc[p], k) <=> Fetchable(p, k)
        /\ pc[p] \in Nat /\ Size(p) = Len(Text(p)) /\ Size(p) \in Nat
    BY <1>0, AtBytes
  <2> QED BY <2>1, <2>2, <2>3
<1>2. /\ Byte(p, 0) = MB_OP_CALL_BIF /\ Byte(p, 1) = bif /\ Byte(p, 2) = argc
      /\ Fetchable(p, 0) /\ Fetchable(p, 2) /\ Fetchable(p, argc + 3)
  <2>1. {0, 1, 2, argc + 3} \subseteq 0..(argc + 3)
    BY <1>0
  <2>2. Byte(p, 0) = part[0 + 1] /\ Byte(p, 1) = part[1 + 1] /\ Byte(p, 2) = part[2 + 1]
    BY <1>1, <2>1
  <2> QED BY <1>0, <1>1, <2>1, <2>2
<1>3. ASSUME NEW k \in 3..(argc + 3)
      PROVE  Byte(p, k) = part[k + 1] /\ Byte(p, k) \in Regs /\ ValidReg(Byte(p, k))
  <2>1. k \in 0..(argc + 3) /\ k + 1 \in 4..(argc + 4)
    BY <1>0
  <2>2. Byte(p, k) = part[k + 1] /\ part[k + 1] \in 0..9
    BY <1>0, <1>1, <2>1
  <2>3. \A r \in 0..9 : r \in Regs /\ ValidReg(r)
    BY DEF Regs, ValidReg
  <2> QED BY <2>2, <2>3
<1>4. pc[p] \in 0..(Len(Text(p)) - 1)
  BY <1>1, <1>2 DEF Fetchable
<1>5. Whole(Text(p), pc[p])
  BY <1>0, <1>1, <1>2, <1>3, <1>4 DEF Whole, NameRegisters
<1> QED BY <1>0, <1>1, <1>2, <1>3, <1>5 DEF CallBifArgc

\* mb_call_bif accepts what the registers that part names hold.
Accepted(p, part, bif, argc) ==
  \A arg : (\A k \in 1..argc : arg[k] = Reg(p, part[k + 3])) => BifArgumentsValid(bif, arg)

\* It sets its last register only, and the driver is called with the others.
LEMMA CallOf ==
  ASSUME MachineOK, NEW p \in Pids, running = p, Step(p), RegCount >= 10,
         NEW part, NEW bif, NEW argc, AtCall(p, part, bif, argc), Accepted(p, part, bif, argc)
  PROVE  /\ Goes(p, pc[p] + (argc + 4)) /\ Sets(p, part[argc + 4]) /\ UNCHANGED mailbox
         /\ \A b : Calls(p, b) <=> b = bif
         /\ Returned(p) = Reg(p, part[argc + 4])'
         /\ \E result \in BifResults(bif) : regs'[p][part[argc + 4]] = MAKE_SMALLINT(result)
         /\ \A k \in 1..argc : RegInt(p, k + 2) = Reg(p, part[k + 3])
<1> DEFINE dst == part[argc + 4]
<1>1. /\ Whole(Text(p), pc[p]) /\ pc[p] \in Nat
      /\ Byte(p, 0) = MB_OP_CALL_BIF /\ Byte(p, 1) = bif /\ CallBifArgc(p) = argc
      /\ \A k \in 3..(argc + 3) : Byte(p, k) = part[k + 1] /\ Byte(p, k) \in Regs
      /\ argc \in 0..4
  BY CallWhole DEF AtCall
<1>2. Byte(p, argc + 3) = dst /\ dst \in Regs
  <2>1. argc + 3 \in 3..(argc + 3) /\ (argc + 3) + 1 = argc + 4
    BY <1>1
  <2>2. Byte(p, argc + 3) = part[(argc + 3) + 1] /\ Byte(p, argc + 3) \in Regs
    BY <1>1, <2>1
  <2> QED BY <2>1, <2>2
<1>3. ASSUME NEW k \in 1..argc PROVE RegInt(p, k + 2) = Reg(p, part[k + 3])
  <2>1. k + 2 \in 3..(argc + 3) /\ (k + 2) + 1 = k + 3
    BY <1>1
  <2>2. Byte(p, k + 2) = part[k + 3]
    BY <1>1, <2>1
  <2> QED BY <2>2 DEF RegInt, RegTerm, Reg
<1> HIDE DEF dst
<1> DEFINE arg == [k \in 1..argc |-> RegInt(p, k + 2)]
<1>4. BifArgumentsValid(Byte(p, 1), arg)
  <2>1. \A k \in 1..argc : arg[k] = Reg(p, part[k + 3])
    BY <1>3
  <2> HIDE DEF arg
  <2> QED BY <1>1, <2>1 DEF Accepted
<1>5. /\ Goes(p, pc[p] + (CallBifArgc(p) + 3) + 1)
      /\ Byte(p, CallBifArgc(p) + 3) \in Regs => Sets(p, Byte(p, CallBifArgc(p) + 3))
      /\ UNCHANGED mailbox /\ Calls(p, Byte(p, 1))
      /\ \E result \in BifResults(Byte(p, 1)) :
           Byte(p, CallBifArgc(p) + 3) \in Regs =>
             regs'[p][Byte(p, CallBifArgc(p) + 3)] = MAKE_SMALLINT(result)
  BY <1>1, <1>4, CallRuns DEF arg
<1>6. pc[p] + (argc + 3) + 1 = pc[p] + (argc + 4)
  <2>1. \A x \in Nat, y \in 0..4 : x + (y + 3) + 1 = x + (y + 4)
    OBVIOUS
  <2> QED BY <1>1, <2>1
<1>7. /\ Goes(p, pc[p] + (argc + 4)) /\ Sets(p, dst) /\ UNCHANGED mailbox /\ Calls(p, bif)
      /\ \E result \in BifResults(bif) : regs'[p][dst] = MAKE_SMALLINT(result)
  BY <1>1, <1>2, <1>5, <1>6
<1>8. \A b : Calls(p, b) <=> b = bif
  BY <1>1, <1>7 DEF Calls
<1>9. Returned(p) = Reg(p, dst)'
  BY <1>1, <1>2 DEF Returned, Reg
<1> QED BY <1>3, <1>7, <1>8, <1>9 DEF dst

\* The BIFs that flows call.
LEMMA FlowBifs ==
  /\ {MB_BIF_I2C_READ_REG, MB_BIF_MONOTONIC_MS, MB_BIF_PWM_SET_DUTY} \subseteq Bifs
  /\ BifArgc(MB_BIF_I2C_READ_REG) = 3 /\ BifArgc(MB_BIF_MONOTONIC_MS) = 0
  /\ BifArgc(MB_BIF_PWM_SET_DUTY) = 2
  /\ MB_BIF_I2C_READ_REG \notin PwmBifs /\ MB_BIF_MONOTONIC_MS \notin PwmBifs
  /\ \A arg : /\ BifArgumentsValid(MB_BIF_MONOTONIC_MS, arg)
              /\ arg[1] \in I2cBus /\ arg[2] \in I2cAddr /\ arg[3] \in U8 =>
                   BifArgumentsValid(MB_BIF_I2C_READ_REG, arg)
              /\ arg[1] \in PwmChannel /\ arg[2] \in PwmPermille =>
                   BifArgumentsValid(MB_BIF_PWM_SET_DUTY, arg)
  BY DEF Bifs, PwmBifs, BifArgc, BifArgumentsValid, MB_BIF_I2C_READ_REG,
         MB_BIF_MONOTONIC_MS, MB_BIF_GPIO_READ, MB_BIF_GPIO_WRITE, MB_BIF_PWM_SET_DUTY, MB_BIF_PWM_CONFIG,
         MB_BIF_I2C_WRITE_REG

\* The sensor reads its device.
LEMMA ReadRuns ==
  ASSUME MachineOK, NEW p \in Pids, running = p, Step(p), RegCount >= 10,
         At(p, <<OP_CALL_BIF, BIF_I2C_READ_REG, 3, 0, 1, 2, 7>>),
         Reg(p, 0) \in I2cBus, Reg(p, 1) \in I2cAddr, Reg(p, 2) \in U8
  PROVE  /\ Goes(p, pc[p] + 7) /\ Sets(p, 7) /\ UNCHANGED mailbox
         /\ \A b : Calls(p, b) <=> b = MB_BIF_I2C_READ_REG
         /\ Returned(p) = Reg(p, 7)'
         /\ RegInt(p, 3) = Reg(p, 0) /\ RegInt(p, 4) = Reg(p, 1)
<1> DEFINE part == <<OP_CALL_BIF, BIF_I2C_READ_REG, 3, 0, 1, 2, 7>>
           argc == 3
<1>1. /\ part \in Seq(Int) /\ Len(part) = argc + 4 /\ argc \in 0..4 /\ At(p, part)
      /\ part[1] = MB_OP_CALL_BIF /\ part[2] = MB_BIF_I2C_READ_REG /\ part[3] = argc
      /\ part[4] = 0 /\ part[5] = 1 /\ part[6] = 2 /\ part[7] = 7
  BY DEF OP_CALL_BIF, BIF_I2C_READ_REG, MB_OP_CALL_BIF, MB_BIF_I2C_READ_REG
<1> HIDE DEF part
<1>2. \A k \in 4..(argc + 4) : part[k] \in 0..9
  <2>1. \A k \in 4..(argc + 4) : k \in {4, 5, 6, 7}
    OBVIOUS
  <2> QED BY <1>1, <2>1
<1>3. Accepted(p, part, MB_BIF_I2C_READ_REG, argc)
  <2>1. SUFFICES ASSUME NEW arg, \A k \in 1..argc : arg[k] = Reg(p, part[k + 3])
                 PROVE  BifArgumentsValid(MB_BIF_I2C_READ_REG, arg)
    BY DEF Accepted
  <2>2. arg[1] = Reg(p, part[1 + 3]) /\ arg[2] = Reg(p, part[2 + 3])
        /\ arg[3] = Reg(p, part[3 + 3])
    BY <2>1
  <2>3. arg[1] = Reg(p, 0) /\ arg[2] = Reg(p, 1) /\ arg[3] = Reg(p, 2)
    BY <1>1, <2>2
  <2> QED BY <2>3, FlowBifs
<1>4. part[argc + 4] = 7
  BY <1>1
<1>5. /\ Goes(p, pc[p] + (argc + 4)) /\ Sets(p, 7) /\ UNCHANGED mailbox
      /\ \A b : Calls(p, b) <=> b = MB_BIF_I2C_READ_REG
      /\ Returned(p) = Reg(p, 7)'
      /\ \A k \in 1..argc : RegInt(p, k + 2) = Reg(p, part[k + 3])
  <2>1. argc = BifArgc(MB_BIF_I2C_READ_REG) /\ MB_BIF_I2C_READ_REG \in Bifs
    BY FlowBifs
  <2> HIDE DEF argc
  <2>2. AtCall(p, part, MB_BIF_I2C_READ_REG, argc)
    BY <1>1, <1>2, <2>1 DEF AtCall
  <2> QED BY <1>3, <1>4, <2>2, CallOf
<1>6. RegInt(p, 1 + 2) = Reg(p, part[1 + 3]) /\ RegInt(p, 2 + 2) = Reg(p, part[2 + 3])
  BY <1>5
<1> QED BY <1>1, <1>5, <1>6

\* The sensor looks at the clock.
LEMMA TimeRuns ==
  ASSUME MachineOK, NEW p \in Pids, running = p, Step(p), RegCount >= 10,
         At(p, <<OP_CALL_BIF, BIF_MONOTONIC_MS, 0, 9>>)
  PROVE  /\ Goes(p, pc[p] + 4) /\ Sets(p, 9) /\ UNCHANGED mailbox
         /\ \A b : Calls(p, b) <=> b = MB_BIF_MONOTONIC_MS
         /\ regs'[p][9] = MAKE_SMALLINT(Now)
<1> DEFINE part == <<OP_CALL_BIF, BIF_MONOTONIC_MS, 0, 9>>
           argc == 0
<1>1. /\ part \in Seq(Int) /\ Len(part) = argc + 4 /\ argc \in 0..4 /\ At(p, part)
      /\ part[1] = MB_OP_CALL_BIF /\ part[2] = MB_BIF_MONOTONIC_MS /\ part[3] = argc
      /\ part[4] = 9
  BY DEF OP_CALL_BIF, BIF_MONOTONIC_MS, MB_OP_CALL_BIF, MB_BIF_MONOTONIC_MS
<1> HIDE DEF part
<1>2. \A k \in 4..(argc + 4) : part[k] \in 0..9
  <2>1. \A k \in 4..(argc + 4) : k = 4
    OBVIOUS
  <2> QED BY <1>1, <2>1
<1>3. part[argc + 4] = 9
  BY <1>1
<1>4. /\ Goes(p, pc[p] + (argc + 4)) /\ Sets(p, 9) /\ UNCHANGED mailbox
      /\ \A b : Calls(p, b) <=> b = MB_BIF_MONOTONIC_MS
      /\ \E result \in BifResults(MB_BIF_MONOTONIC_MS) : regs'[p][9] = MAKE_SMALLINT(result)
  <2>1. argc = BifArgc(MB_BIF_MONOTONIC_MS) /\ MB_BIF_MONOTONIC_MS \in Bifs
    BY FlowBifs
  <2> HIDE DEF argc
  <2>2. AtCall(p, part, MB_BIF_MONOTONIC_MS, argc)
    BY <1>1, <1>2, <2>1 DEF AtCall
  <2>3. Accepted(p, part, MB_BIF_MONOTONIC_MS, argc)
    BY FlowBifs DEF Accepted
  <2> QED BY <1>3, <2>2, <2>3, CallOf
<1> QED BY <1>4 DEF BifResults

\* The actuator sets the duty.
LEMMA DutyRuns ==
  ASSUME MachineOK, NEW p \in Pids, running = p, Step(p), RegCount >= 10,
         At(p, <<OP_CALL_BIF, BIF_PWM_SET_DUTY, 2, 1, 2, 5>>),
         Reg(p, 1) \in PwmChannel, Reg(p, 2) \in PwmPermille
  PROVE  /\ Goes(p, pc[p] + 6) /\ Sets(p, 5) /\ UNCHANGED mailbox
         /\ \A b : Calls(p, b) <=> b = MB_BIF_PWM_SET_DUTY
         /\ RegInt(p, 3) = Reg(p, 1) /\ RegInt(p, 4) = Reg(p, 2)
<1> DEFINE part == <<OP_CALL_BIF, BIF_PWM_SET_DUTY, 2, 1, 2, 5>>
           argc == 2
<1>1. /\ part \in Seq(Int) /\ Len(part) = argc + 4 /\ argc \in 0..4 /\ At(p, part)
      /\ part[1] = MB_OP_CALL_BIF /\ part[2] = MB_BIF_PWM_SET_DUTY /\ part[3] = argc
      /\ part[4] = 1 /\ part[5] = 2 /\ part[6] = 5
  BY DEF OP_CALL_BIF, BIF_PWM_SET_DUTY, MB_OP_CALL_BIF, MB_BIF_PWM_SET_DUTY
<1> HIDE DEF part
<1>2. \A k \in 4..(argc + 4) : part[k] \in 0..9
  <2>1. \A k \in 4..(argc + 4) : k \in {4, 5, 6}
    OBVIOUS
  <2> QED BY <1>1, <2>1
<1>3. Accepted(p, part, MB_BIF_PWM_SET_DUTY, argc)
  <2>1. SUFFICES ASSUME NEW arg, \A k \in 1..argc : arg[k] = Reg(p, part[k + 3])
                 PROVE  BifArgumentsValid(MB_BIF_PWM_SET_DUTY, arg)
    BY DEF Accepted
  <2>2. arg[1] = Reg(p, part[1 + 3]) /\ arg[2] = Reg(p, part[2 + 3])
    BY <2>1
  <2>3. arg[1] = Reg(p, 1) /\ arg[2] = Reg(p, 2)
    BY <1>1, <2>2
  <2> QED BY <2>3, FlowBifs
<1>4. part[argc + 4] = 5
  BY <1>1
<1>5. /\ Goes(p, pc[p] + (argc + 4)) /\ Sets(p, 5) /\ UNCHANGED mailbox
      /\ \A b : Calls(p, b) <=> b = MB_BIF_PWM_SET_DUTY
      /\ \A k \in 1..argc : RegInt(p, k + 2) = Reg(p, part[k + 3])
  <2>1. argc = BifArgc(MB_BIF_PWM_SET_DUTY) /\ MB_BIF_PWM_SET_DUTY \in Bifs
    BY FlowBifs
  <2> HIDE DEF argc
  <2>2. AtCall(p, part, MB_BIF_PWM_SET_DUTY, argc)
    BY <1>1, <1>2, <2>1 DEF AtCall
  <2> QED BY <1>3, <1>4, <2>2, CallOf
<1>6. RegInt(p, 1 + 2) = Reg(p, part[1 + 3]) /\ RegInt(p, 2 + 2) = Reg(p, part[2 + 3])
  BY <1>5
<1> QED BY <1>1, <1>5, <1>6

\* p is at an instruction with fixed operands, as the compiler writes it.
AtFixed(p, part, op) ==
  /\ part \in Seq(Int) /\ At(p, part)
  /\ op \in FixedOps /\ Len(part) = OperandBytes(op) + 1
  /\ part[1] = op
  /\ \A k \in RegisterOperands(op) : k \in 1..OperandBytes(op) /\ part[k + 1] \in 0..9

\* It is whole, and its operands are the part's.
LEMMA FixedAt ==
  ASSUME MachineOK, NEW p \in Pids, running = p, RegCount >= 10,
         NEW part, NEW op, AtFixed(p, part, op)
  PROVE  /\ Whole(Text(p), pc[p])
         /\ Byte(p, 0) = op
         /\ \A k \in RegisterOperands(op) : Byte(p, k) = part[k + 1] /\ Byte(p, k) \in Regs
         /\ AfterOperands(p, op) = pc[p] + Len(part)
<1>1. /\ part \in Seq(Int) /\ At(p, part)
      /\ op \in FixedOps /\ Len(part) = OperandBytes(op) + 1 /\ part[1] = op
      /\ OperandBytes(op) \in 0..6
      /\ \A k \in RegisterOperands(op) : k \in 1..OperandBytes(op) /\ part[k + 1] \in 0..9
  BY OperandBytesType DEF AtFixed
<1>2. /\ \A k \in 0..OperandBytes(op) : Byte(p, k) = part[k + 1] /\ Fetchable(p, k)
      /\ pc[p] \in Nat
  <2>1. Len(part) - 1 = OperandBytes(op)
    BY <1>1
  <2>2. \A k \in 0..(Len(part) - 1) : Byte(p, k) = part[k + 1] /\ Fetchable(p, k)
    BY <1>1, AtBytes
  <2>3. pc[p] \in Nat
    BY <1>1, AtBytes
  <2> QED BY <2>1, <2>2, <2>3
<1>3. Byte(p, 0) = op /\ Fetchable(p, OperandBytes(op))
  <2>1. 0 \in 0..OperandBytes(op) /\ OperandBytes(op) \in 0..OperandBytes(op)
    BY <1>1
  <2>2. Byte(p, 0) = part[0 + 1]
    BY <1>2, <2>1
  <2> QED BY <1>1, <1>2, <2>1, <2>2
<1>4. ASSUME NEW k \in RegisterOperands(op)
      PROVE  Byte(p, k) = part[k + 1] /\ Byte(p, k) \in Regs /\ ValidReg(Byte(p, k))
  <2>1. k \in 0..OperandBytes(op)
    BY <1>1
  <2>2. Byte(p, k) = part[k + 1] /\ part[k + 1] \in 0..9
    BY <1>1, <1>2, <2>1
  <2>3. \A r \in 0..9 : r \in Regs /\ ValidReg(r)
    BY DEF Regs, ValidReg
  <2> QED BY <2>2, <2>3
<1>5. Whole(Text(p), pc[p])
  BY <1>1, <1>3, <1>4, FixedWhole
<1>6. AfterOperands(p, op) = pc[p] + Len(part)
  BY <1>1, <1>2 DEF AfterOperands
<1> QED BY <1>3, <1>4, <1>5, <1>6

\* A command that is pushed somewhere, or none.
Posts(cmd) ==
  \/ UNCHANGED mailbox
  \/ \E q \in Pids : /\ PushStatus(mailbox[q], cmd) = MB_OK
                     /\ mailbox' = [mailbox EXCEPT ![q] = Pushed(@, cmd)]

\* The sensor sends.
LEMMA SendRuns ==
  ASSUME MachineOK, NEW p \in Pids, running = p, Step(p), RegCount >= 10,
         At(p, <<OP_SEND, 3, 4, 5, 7, 8, 8>>)
  PROVE  /\ Goes(p, pc[p] + 7) /\ Sets(p, 3) /\ Byte(p, 0) # MB_OP_CALL_BIF
         /\ Posts([type |-> Reg(p, 4), a |-> Reg(p, 5), b |-> Reg(p, 7),
                   c |-> Reg(p, 8), d |-> Reg(p, 8)])
<1> DEFINE part == <<OP_SEND, 3, 4, 5, 7, 8, 8>>
<1>1. /\ part \in Seq(Int) /\ Len(part) = 7 /\ At(p, part) /\ part[1] = MB_OP_SEND
      /\ part[1 + 1] = 3 /\ part[2 + 1] = 4 /\ part[3 + 1] = 5 /\ part[4 + 1] = 7
      /\ part[5 + 1] = 8 /\ part[6 + 1] = 8
  BY DEF OP_SEND, MB_OP_SEND
<1> HIDE DEF part
<1>2. /\ MB_OP_SEND \in FixedOps /\ OperandBytes(MB_OP_SEND) = 6
      /\ RegisterOperands(MB_OP_SEND) = 1..6
  BY OpcodeTable
<1>3. AtFixed(p, part, MB_OP_SEND)
  <2>1. \A k \in 1..6 : k \in {1, 2, 3, 4, 5, 6}
    OBVIOUS
  <2>2. \A k \in 1..6 : part[k + 1] \in 0..9
    BY <1>1, <2>1
  <2>3. Len(part) = 6 + 1
    BY <1>1
  <2> QED BY <1>1, <1>2, <2>2, <2>3 DEF AtFixed
<1>4. /\ Whole(Text(p), pc[p]) /\ Byte(p, 0) = MB_OP_SEND
      /\ \A k \in 1..6 : Byte(p, k) = part[k + 1] /\ Byte(p, k) \in Regs
      /\ AfterOperands(p, MB_OP_SEND) = pc[p] + 7
  <2>1. /\ Whole(Text(p), pc[p]) /\ Byte(p, 0) = MB_OP_SEND
        /\ \A k \in RegisterOperands(MB_OP_SEND) : Byte(p, k) = part[k + 1] /\ Byte(p, k) \in Regs
        /\ AfterOperands(p, MB_OP_SEND) = pc[p] + Len(part)
    BY <1>3, FixedAt
  <2> QED BY <1>1, <1>2, <2>1
<1>5. /\ Byte(p, 1) = 3 /\ Byte(p, 2) = 4 /\ Byte(p, 3) = 5 /\ Byte(p, 4) = 7
      /\ Byte(p, 5) = 8 /\ Byte(p, 6) = 8 /\ 3 \in Regs
  <2>1. {1, 2, 3, 4, 5, 6} \subseteq 1..6
    OBVIOUS
  <2>2. /\ Byte(p, 1) = part[1 + 1] /\ Byte(p, 2) = part[2 + 1] /\ Byte(p, 3) = part[3 + 1]
        /\ Byte(p, 4) = part[4 + 1] /\ Byte(p, 5) = part[5 + 1] /\ Byte(p, 6) = part[6 + 1]
        /\ Byte(p, 1) \in Regs
    BY <1>4, <2>1
  <2> QED BY <1>1, <2>2
<1>6. Send(p)
  BY <1>4, OpcodeActs
<1>7. SendCommand(p) = [type |-> Reg(p, 4), a |-> Reg(p, 5), b |-> Reg(p, 7),
                        c |-> Reg(p, 8), d |-> Reg(p, 8)]
  BY <1>5 DEF SendCommand, RegInt, RegTerm, Reg
<1>8. Posts(SendCommand(p))
  BY <1>6 DEF Send, Deliver, Posts, Live
<1>9. Goes(p, pc[p] + 7)
  BY <1>4, <1>6 DEF Send, CountReduction, Goes
<1>10. Sets(p, 3)
  <2>1. \E t : regs' = [regs EXCEPT ![p][3] = t]
    BY <1>5, <1>6 DEF Send, SetReg
  <2> QED BY <1>5, <2>1 DEF Sets, MachineOK, RegFiles
<1> QED BY <1>2, <1>4, <1>7, <1>8, <1>9, <1>10, OpcodesDiffer

\* The sensor yields or goes to sleep: its run is over.
LEMMA YieldRuns ==
  ASSUME MachineOK, NEW p \in Pids, running = p, Step(p), RegCount >= 10, At(p, <<OP_YIELD>>)
  PROVE  /\ Goes(p, pc[p] + 1) /\ running' = 0 /\ UNCHANGED <<regs, mailbox>>
         /\ Byte(p, 0) # MB_OP_CALL_BIF
<1> DEFINE part == <<OP_YIELD>>
<1>1. part \in Seq(Int) /\ Len(part) = 1 /\ At(p, part) /\ part[1] = MB_OP_YIELD
  BY DEF OP_YIELD, MB_OP_YIELD
<1> HIDE DEF part
<1>2. AtFixed(p, part, MB_OP_YIELD)
  <2>1. /\ MB_OP_YIELD \in FixedOps /\ OperandBytes(MB_OP_YIELD) = 0
        /\ RegisterOperands(MB_OP_YIELD) = {}
    BY OpcodeTable
  <2> QED BY <1>1, <2>1 DEF AtFixed
<1>3. Yield(p) /\ Byte(p, 0) = MB_OP_YIELD /\ AfterOperands(p, MB_OP_YIELD) = pc[p] + 1
  <2>1. /\ Whole(Text(p), pc[p]) /\ Byte(p, 0) = MB_OP_YIELD
        /\ AfterOperands(p, MB_OP_YIELD) = pc[p] + Len(part)
    BY <1>2, FixedAt
  <2> QED BY <1>1, <2>1, OpcodeActs
<1>4. ~(Reductions + 1 < Reductions)
  OBVIOUS
<1>5. Byte(p, 0) # MB_OP_CALL_BIF
  BY <1>3 DEF MB_OP_YIELD, MB_OP_CALL_BIF
<1> QED BY <1>3, <1>4, <1>5 DEF Yield, RetireUsing, CountReduction, Goes

LEMMA SleepRuns ==
  ASSUME MachineOK, NEW p \in Pids, running = p, Step(p), RegCount >= 10,
         At(p, <<OP_SLEEP_MS, 6>>)
  PROVE  /\ Goes(p, pc[p] + 2) /\ running' = 0 /\ UNCHANGED <<regs, mailbox>>
         /\ Byte(p, 0) # MB_OP_CALL_BIF
<1> DEFINE part == <<OP_SLEEP_MS, 6>>
<1>1. /\ part \in Seq(Int) /\ Len(part) = 2 /\ At(p, part) /\ part[1] = MB_OP_SLEEP_MS
      /\ part[1 + 1] = 6
  BY DEF OP_SLEEP_MS, MB_OP_SLEEP_MS
<1> HIDE DEF part
<1>2. AtFixed(p, part, MB_OP_SLEEP_MS)
  <2>1. /\ MB_OP_SLEEP_MS \in FixedOps /\ OperandBytes(MB_OP_SLEEP_MS) = 1
        /\ RegisterOperands(MB_OP_SLEEP_MS) = {1}
    BY OpcodeTable
  <2> QED BY <1>1, <2>1 DEF AtFixed
<1>3. SleepMs(p) /\ Byte(p, 0) = MB_OP_SLEEP_MS /\ AfterOperands(p, MB_OP_SLEEP_MS) = pc[p] + 2
  <2>1. /\ Whole(Text(p), pc[p]) /\ Byte(p, 0) = MB_OP_SLEEP_MS
        /\ AfterOperands(p, MB_OP_SLEEP_MS) = pc[p] + Len(part)
    BY <1>2, FixedAt
  <2> QED BY <1>1, <2>1, OpcodeActs
<1>4. Byte(p, 0) # MB_OP_CALL_BIF
  BY <1>3 DEF MB_OP_SLEEP_MS, MB_OP_CALL_BIF
<1> QED BY <1>3, <1>4 DEF SleepMs, LeaveReady, Goes

\* A jump to an instruction of the program.
LEMMA JumpRuns ==
  ASSUME MachineOK, NEW p \in Pids, running = p, Step(p), RegCount >= 10,
         At(p, <<OP_JMP>>), NEW v \in (-256)..255, Has(Text(p), pc[p] + 1, i32le(v)),
         NEW n \in Nat, Bytes(Text(p), n), pc[p] + 5 <= n,
         0 <= pc[p] + 5 + v, pc[p] + 5 + v <= n
  PROVE  /\ Goes(p, pc[p] + 5 + v) /\ UNCHANGED <<regs, mailbox>>
         /\ Byte(p, 0) # MB_OP_CALL_BIF
<1>1. pc[p] \in Nat /\ Size(p) = n
  BY MachineFacts DEF Size, Text, Bytes
<1>2. Byte(p, 0) = MB_OP_JMP
  <2> DEFINE part == <<OP_JMP>>
  <2>1. part \in Seq(Int) /\ Len(part) = 1 /\ At(p, part) /\ part[1] = MB_OP_JMP
    BY DEF OP_JMP, MB_OP_JMP
  <2> HIDE DEF part
  <2>2. \A k \in 0..(Len(part) - 1) : Byte(p, k) = part[k + 1]
    BY <2>1, AtBytes
  <2>3. 0 \in 0..(Len(part) - 1)
    BY <2>1
  <2>4. Byte(p, 0) = part[0 + 1]
    BY <2>2, <2>3
  <2> QED BY <2>1, <2>4
<1>3. /\ MB_OP_JMP \in FixedOps /\ OperandBytes(MB_OP_JMP) = 4
      /\ RegisterOperands(MB_OP_JMP) = {}
  BY OpcodeTable
<1>4. Whole(Text(p), pc[p])
  <2>1. /\ pc[p] \in 0..(Len(Text(p)) - 1) /\ Inside(Text(p), pc[p], 4)
    BY <1>1 DEF Inside, Text, Size
  <2>2. ByteAt(Text(p), pc[p], 0) = MB_OP_JMP
    BY <1>2 DEF Byte, ByteAt, Text
  <2> QED BY <1>3, <2>1, <2>2 DEF Whole, NameRegisters
<1>5. Jmp(p) /\ AfterOperands(p, MB_OP_JMP) = pc[p] + 5
  BY <1>1, <1>2, <1>3, <1>4, OpcodeActs DEF AfterOperands
<1>6. I32(p, 1) = v
  BY <1>1, OperandRead DEF I32, Text
<1>7. JumpTo(p, pc[p] + 5, v)
  BY <1>5, <1>6 DEF Jmp
<1>8. Retire(p, pc[p] + 5 + v, regs)
  BY <1>1, <1>7 DEF JumpTo
<1> QED BY <1>2, <1>8 DEF Retire, RetireUsing, CountReduction, Goes, MB_OP_JMP, MB_OP_CALL_BIF

\* The actuator takes the oldest command, or waits where it is.
LEMMA RecvRuns ==
  ASSUME MachineOK, NEW p \in Pids, running = p, Step(p), RegCount >= 10,
         At(p, <<OP_RECV_CMD, 0, 1, 2, 3, 4>>)
  PROVE  /\ Byte(p, 0) # MB_OP_CALL_BIF
         /\ \/ Goes(p, pc[p]) /\ UNCHANGED <<regs, mailbox>>
            \/ /\ Goes(p, pc[p] + 6)
               /\ mailbox[p].count # 0
               /\ mailbox' = [mailbox EXCEPT ![p] = Popped(@)]
               /\ ValidateCommand(First(mailbox[p])) = MB_OK =>
                    /\ regs'[p][1] = MAKE_SMALLINT(First(mailbox[p]).a)
                    /\ regs'[p][2] = MAKE_SMALLINT(First(mailbox[p]).b)
<1> DEFINE part == <<OP_RECV_CMD, 0, 1, 2, 3, 4>>
<1>1. /\ part \in Seq(Int) /\ Len(part) = 6 /\ At(p, part) /\ part[1] = MB_OP_RECV_CMD
      /\ part[1 + 1] = 0 /\ part[2 + 1] = 1 /\ part[3 + 1] = 2 /\ part[4 + 1] = 3
      /\ part[5 + 1] = 4
  BY DEF OP_RECV_CMD, MB_OP_RECV_CMD
<1> HIDE DEF part
<1>2. /\ MB_OP_RECV_CMD \in FixedOps /\ OperandBytes(MB_OP_RECV_CMD) = 5
      /\ RegisterOperands(MB_OP_RECV_CMD) = 1..5
  BY OpcodeTable
<1>3. AtFixed(p, part, MB_OP_RECV_CMD)
  <2>1. \A k \in 1..5 : k \in {1, 2, 3, 4, 5}
    OBVIOUS
  <2>2. \A k \in 1..5 : part[k + 1] \in 0..9
    BY <1>1, <2>1
  <2>3. Len(part) = 5 + 1
    BY <1>1
  <2> QED BY <1>1, <1>2, <2>2, <2>3 DEF AtFixed
<1>4. /\ Whole(Text(p), pc[p]) /\ Byte(p, 0) = MB_OP_RECV_CMD
      /\ \A k \in 1..5 : Byte(p, k) = part[k + 1] /\ Byte(p, k) \in Regs
      /\ AfterOperands(p, MB_OP_RECV_CMD) = pc[p] + 6
  <2>1. /\ Whole(Text(p), pc[p]) /\ Byte(p, 0) = MB_OP_RECV_CMD
        /\ \A k \in RegisterOperands(MB_OP_RECV_CMD) :
             Byte(p, k) = part[k + 1] /\ Byte(p, k) \in Regs
        /\ AfterOperands(p, MB_OP_RECV_CMD) = pc[p] + Len(part)
    BY <1>3, FixedAt
  <2> QED BY <1>1, <1>2, <2>1
<1>5. /\ Byte(p, 1) = 0 /\ Byte(p, 2) = 1 /\ Byte(p, 3) = 2 /\ Byte(p, 4) = 3
      /\ Byte(p, 5) = 4 /\ 1 \in Regs /\ 2 \in Regs
  <2>1. {1, 2, 3, 4, 5} \subseteq 1..5
    OBVIOUS
  <2>2. /\ Byte(p, 1) = part[1 + 1] /\ Byte(p, 2) = part[2 + 1] /\ Byte(p, 3) = part[3 + 1]
        /\ Byte(p, 4) = part[4 + 1] /\ Byte(p, 5) = part[5 + 1]
        /\ Byte(p, 2) \in Regs /\ Byte(p, 3) \in Regs
    BY <1>4, <2>1
  <2> QED BY <1>1, <2>2
<1>6. RecvCmd(p) \/ RecvCmdBlocks(p)
  BY <1>4, OpcodeActs
<1>7. CASE RecvCmdBlocks(p)
  <2>1. pc = [pc EXCEPT ![p] = pc[p]]
    BY DEF MachineOK
  <2> QED BY <1>4, <1>7, <2>1 DEF RecvCmdBlocks, LeaveReady, Goes, MB_OP_RECV_CMD, MB_OP_CALL_BIF
<1>8. CASE RecvCmd(p)
  <2>1. Goes(p, pc[p] + 6)
    BY <1>4, <1>8 DEF RecvCmd, CountReduction, Goes
  <2>2. mailbox[p].count # 0 /\ mailbox' = [mailbox EXCEPT ![p] = Popped(@)]
    BY <1>8 DEF RecvCmd
  <2>3. ASSUME NEW cmd, regs' = SetCommandRegs(p, cmd.type, cmd.a, cmd.b, cmd.c, cmd.d)
        PROVE  regs'[p][1] = MAKE_SMALLINT(cmd.a) /\ regs'[p][2] = MAKE_SMALLINT(cmd.b)
    <3>1. regs \in [Pids -> [Regs -> Term]]
      BY DEF MachineOK, RegFiles
    <3> QED BY <1>5, <2>3, <3>1 DEF SetCommandRegs
  <2>4. ValidateCommand(First(mailbox[p])) = MB_OK =>
          /\ regs'[p][1] = MAKE_SMALLINT(First(mailbox[p]).a)
          /\ regs'[p][2] = MAKE_SMALLINT(First(mailbox[p]).b)
    BY <1>8, <2>3 DEF RecvCmd
  <2> QED BY <1>4, <2>1, <2>2, <2>4 DEF MB_OP_RECV_CMD, MB_OP_CALL_BIF
<1> QED BY <1>6, <1>7, <1>8

-----------------------------------------------------------------------------
(* What holds in a flow.                                                   *)

\* What a read of sensor i may give.
Answers(i) == IF Connected(i) THEN DeviceReads[DeviceOf(i)] \cup {-1} ELSE {-1}

\* The readings that may drive the PWM.
GoodReadings ==
  {v \in PwmPermille : \E i \in Sensors : Connected(i) /\ v \in DeviceReads[DeviceOf(i)]}

FlowCommands ==
  {cmd \in Command : /\ ValidateCommand(cmd) = MB_OK
                     /\ cmd.a = Channel /\ cmd.b \in GoodReadings}

SensorPlaces(i) ==
  {0, 6, 12, 18, 24, 30, 36, 42, 48, 55, 59, 66, JumpAt(FlowSpec.sensors[i])}

\* Sensor i is at an instruction, with what its registers hold there.
SensorAt(i) ==
  /\ ~halted[i] /\ pc[i] \in SensorPlaces(i)
  /\ pc[i] >= 6  => Reg(i, 0) = FlowSpec.sensors[i].bus
  /\ pc[i] >= 12 => Reg(i, 1) = DeviceOf(i)
  /\ pc[i] >= 18 => Reg(i, 2) = FlowSpec.sensors[i].reg
  /\ pc[i] >= 30 => Reg(i, 4) = CMD_PWM_SET_DUTY
  /\ pc[i] >= 36 => Reg(i, 5) = Channel
  /\ pc[i] >= 48 => Reg(i, 8) = 0
  /\ pc[i] \in {55, 59} => Reg(i, 7) \in Answers(i)

\* So is the actuator.
ActuatorAt ==
  /\ ~halted[ProcA] /\ pc[ProcA] \in {0, 6, 12}
  /\ pc[ProcA] = 6 => Reg(ProcA, 1) = Channel /\ Reg(ProcA, 2) \in GoodReadings

\* What the flow is made of.
LEMMA FlowFacts ==
  /\ RegCount >= 10 /\ PayloadHalf > 1000
  /\ Channel \in 0..7 /\ ProcS \in Sensors /\ ProcS = 1
  /\ Sensors \subseteq Pids /\ ProcA \in Pids /\ ProcA \notin Sensors
  /\ \A i \in Pids : i <= ProcA => i \in Sensors \/ i = ProcA
  /\ ActPid(FlowSpec) \in Int
  /\ \A i \in Sensors :
       /\ ValidSensor(FlowSpec.sensors[i])
       /\ Code[Boot[i]] = compile_sensor(FlowSpec.sensors[i], Channel, ActPid(FlowSpec))
  /\ Code[Boot[ProcA]] = compile_actuator
<1>1. /\ Sensors = 1..(ProcA - 1) /\ ProcA \in 1..MaxProcesses
      /\ RegCount >= 10 /\ PayloadHalf > 1000
  BY FlowAssumption, BootAssumption DEF ProcA
<1>2. ValidFlow(FlowSpec.flows[1], FlowSpec.sensors, FlowSpec.actuators)
  BY FlowAssumption DEF ValidSpec
<1>3. Sensors # {}
  BY <1>2 DEF ValidFlow, Sensors
<1>4. Channel \in 0..7
  <2>1. PICK j \in DOMAIN FlowSpec.actuators : FlowSpec.actuators[j].channel = Channel
    BY <1>2 DEF ValidFlow, Channel
  <2>2. ValidActuator(FlowSpec.actuators[j])
    BY FlowAssumption DEF ValidSpec
  <2> QED BY <2>1, <2>2 DEF ValidActuator
<1>5. /\ ProcS = 1 /\ ProcS \in Sensors
      /\ Sensors \subseteq Pids /\ ProcA \in Pids /\ ProcA \notin Sensors
      /\ \A i \in Pids : i <= ProcA => i \in Sensors \/ i = ProcA
  BY <1>1, <1>3 DEF ProcS, Pids
<1>6. ActPid(FlowSpec) \in Int
  <2>1. \A s : \A n \in Nat : DOMAIN s = 1..n => Len(s) \in Int
    OBVIOUS
  <2>2. DOMAIN FlowSpec.sensors = 1..(ProcA - 1) /\ ProcA - 1 \in Nat
    BY <1>1 DEF Sensors
  <2>3. Len(FlowSpec.sensors) \in Int
    BY <2>1, <2>2
  <2> QED BY <2>3 DEF ActPid
<1>7. ASSUME NEW i \in Sensors
      PROVE  /\ ValidSensor(FlowSpec.sensors[i])
             /\ Code[Boot[i]] = compile_sensor(FlowSpec.sensors[i], Channel, ActPid(FlowSpec))
  BY FlowAssumption DEF ValidSpec, Sensors, compile_flow, Channel
<1>8. Code[Boot[ProcA]] = compile_actuator
  BY FlowAssumption DEF compile_flow
<1> QED BY <1>1, <1>4, <1>5, <1>6, <1>7, <1>8

-----------------------------------------------------------------------------
(* The steps of a sensor.                                                  *)

\* A part of a program is where the process is.
LEMMA AtPart ==
  ASSUME NEW p, NEW n \in Nat, Bytes(Text(p), n), NEW k \in Nat, pc[p] = k,
         NEW part, NEW m \in Nat, Bytes(part, m), Has(Text(p), k, part), k + m <= n
  PROVE  At(p, part)
  BY DEF At, Bytes

\* The instruction at each place of a sensor.
LEMMA SensorText ==
  ASSUME NEW i \in Sensors, program[i] = Boot[i], NEW s, s = FlowSpec.sensors[i]
  PROVE  /\ pc[i] = 0  => At(i, const_i32(0, s.bus))
         /\ pc[i] = 6  => At(i, const_i32(1, s.addr))
         /\ pc[i] = 12 => At(i, const_i32(2, s.reg))
         /\ pc[i] = 18 => At(i, const_i32(3, ActPid(FlowSpec)))
         /\ pc[i] = 24 => At(i, const_i32(4, CMD_PWM_SET_DUTY))
         /\ pc[i] = 30 => At(i, const_i32(5, Channel))
         /\ pc[i] = 36 => At(i, const_i32(6, s.poll_ms))
         /\ pc[i] = 42 => At(i, const_i32(8, 0))
         /\ pc[i] = 48 => At(i, <<OP_CALL_BIF, BIF_I2C_READ_REG, 3, 0, 1, 2, 7>>)
         /\ pc[i] = 55 => At(i, <<OP_CALL_BIF, BIF_MONOTONIC_MS, 0, 9>>)
         /\ pc[i] = 59 => At(i, <<OP_SEND, 3, 4, 5, 7, 8, 8>>)
         /\ pc[i] = 66 => IF s.poll_ms = 0 THEN At(i, <<OP_YIELD>>) ELSE At(i, <<OP_SLEEP_MS, 6>>)
         /\ pc[i] = JumpAt(s) => At(i, <<OP_JMP>>)
         /\ Has(Text(i), JumpAt(s) + 1, i32le(48 - (JumpAt(s) + 5)))
         /\ Bytes(Text(i), JumpAt(s) + 5)
<1> DEFINE code == Text(i)
           n == JumpAt(s) + 5
           read == <<OP_CALL_BIF, BIF_I2C_READ_REG, 3, 0, 1, 2, 7>>
           time == <<OP_CALL_BIF, BIF_MONOTONIC_MS, 0, 9>>
           send == <<OP_SEND, 3, 4, 5, 7, 8, 8>>
           yield == <<OP_YIELD>>
           sleep == <<OP_SLEEP_MS, 6>>
           jump == <<OP_JMP>>
<1>1. ValidSensor(s) /\ Channel \in Int /\ ActPid(FlowSpec) \in Int
      /\ code = compile_sensor(s, Channel, ActPid(FlowSpec))
  BY FlowFacts DEF Text
<1>2. JumpAt(s) \in {67, 68} /\ n \in Nat /\ n >= 72 /\ (s.poll_ms # 0 => JumpAt(s) = 68)
      /\ JumpAt(s) \in Nat /\ JumpAt(s) + 1 <= n
  BY DEF JumpAt
<1>3. /\ Bytes(read, 7) /\ Bytes(time, 4) /\ Bytes(send, 7)
      /\ Bytes(yield, 1) /\ Bytes(sleep, 2) /\ Bytes(jump, 1)
  BY DEF Bytes, OP_CALL_BIF, BIF_I2C_READ_REG, BIF_MONOTONIC_MS, OP_SEND, OP_YIELD,
         OP_SLEEP_MS, OP_JMP
<1>4. \A r, v \in Int : Bytes(const_i32(r, v), 6)
  BY OperandBytesOf
<1> HIDE DEF code, read, time, send, yield, sleep, jump
<1>5. /\ Bytes(code, n)
      /\ Has(code, 0, const_i32(0, s.bus)) /\ Has(code, 6, const_i32(1, s.addr))
      /\ Has(code, 12, const_i32(2, s.reg)) /\ Has(code, 18, const_i32(3, ActPid(FlowSpec)))
      /\ Has(code, 24, const_i32(4, CMD_PWM_SET_DUTY))
      /\ Has(code, 30, const_i32(5, Channel))
      /\ Has(code, 36, const_i32(6, s.poll_ms)) /\ Has(code, 42, const_i32(8, 0))
      /\ Has(code, 48, read) /\ Has(code, 55, time) /\ Has(code, 59, send)
      /\ Has(code, 66, IF s.poll_ms = 0 THEN yield ELSE sleep)
      /\ Has(code, JumpAt(s), jump)
      /\ Has(code, JumpAt(s) + 1, i32le(48 - (JumpAt(s) + 5)))
  BY <1>1, SensorBytes DEF read, time, send, yield, sleep, jump
<1> HIDE DEF n
<1>6. ASSUME NEW k \in Nat, NEW part, NEW m \in Nat, Bytes(part, m), Has(code, k, part),
             k + m <= n, pc[i] = k
      PROVE  At(i, part)
  BY <1>2, <1>5, <1>6, AtPart DEF code
<1>7. ASSUME NEW k \in 0..42, NEW r \in Int, NEW v \in Int, Has(code, k, const_i32(r, v)),
             pc[i] = k
      PROVE  At(i, const_i32(r, v))
  <2>1. Bytes(const_i32(r, v), 6) /\ k + 6 <= n
    BY <1>2, <1>4
  <2> QED BY <1>6, <1>7, <2>1
<1>8. /\ s.bus \in Int /\ s.addr \in Int /\ s.reg \in Int /\ s.poll_ms \in Int
      /\ CMD_PWM_SET_DUTY \in Int
  BY <1>1 DEF ValidSensor, CMD_PWM_SET_DUTY
<1>9. /\ pc[i] = 0  => At(i, const_i32(0, s.bus))
      /\ pc[i] = 6  => At(i, const_i32(1, s.addr))
      /\ pc[i] = 12 => At(i, const_i32(2, s.reg))
      /\ pc[i] = 18 => At(i, const_i32(3, ActPid(FlowSpec)))
      /\ pc[i] = 24 => At(i, const_i32(4, CMD_PWM_SET_DUTY))
      /\ pc[i] = 30 => At(i, const_i32(5, Channel))
      /\ pc[i] = 36 => At(i, const_i32(6, s.poll_ms))
      /\ pc[i] = 42 => At(i, const_i32(8, 0))
  BY <1>1, <1>5, <1>7, <1>8
<1>10. /\ pc[i] = 48 => At(i, read)
       /\ pc[i] = 55 => At(i, time)
       /\ pc[i] = 59 => At(i, send)
       /\ pc[i] = 66 => IF s.poll_ms = 0 THEN At(i, yield) ELSE At(i, sleep)
       /\ pc[i] = JumpAt(s) => At(i, jump)
  <2>1. pc[i] = 48 => At(i, read)
    BY <1>2, <1>3, <1>5, <1>6, 48 + 7 <= 72
  <2>2. pc[i] = 55 => At(i, time)
    BY <1>2, <1>3, <1>5, <1>6, 55 + 4 <= 72
  <2>3. pc[i] = 59 => At(i, send)
    BY <1>2, <1>3, <1>5, <1>6, 59 + 7 <= 72
  <2>4. pc[i] = 66 => IF s.poll_ms = 0 THEN At(i, yield) ELSE At(i, sleep)
    BY <1>2, <1>3, <1>5, <1>6, 66 + 1 <= 72, 66 + 2 <= 72
  <2>5. pc[i] = JumpAt(s) => At(i, jump)
    BY <1>2, <1>3, <1>5, <1>6
  <2> QED BY <2>1, <2>2, <2>3, <2>4, <2>5
<1> QED BY <1>5, <1>9, <1>10 DEF code, n, read, time, send, yield, sleep, jump

\* The mailboxes are as they were, but for a command of the flow's.
Mails ==
  \/ UNCHANGED mailbox
  \/ \E cmd \in FlowCommands, q \in Pids :
       /\ PushStatus(mailbox[q], cmd) = MB_OK
       /\ mailbox' = [mailbox EXCEPT ![q] = Pushed(@, cmd)]

\* The step of p does not call the driver's PWM.
LeavesPwm(p) == \A bif \in PwmBifs : ~Calls(p, bif)

\* What a sensor's instruction does.
SensorMoves(i) ==
  /\ SensorAt(i)' /\ Mails
  /\ runRc' \in {runRc, MB_OK}
  /\ LeavesPwm(i)
  /\ IF pc[i] = 55 THEN regs'[i][9] = MAKE_SMALLINT(Now) ELSE regs'[i][9] = regs[i][9]
  /\ pc[i] = 55 => pc'[i] = 59
  /\ pc[i] = 59 => pc'[i] = 66
  /\ pc[i] = 66 => running' = 0

\* Where p is and what its registers hold after an instruction.
LEMMA GoneOn ==
  ASSUME MachineOK, RegCount >= 10, NEW p \in Pids, NEW at, Goes(p, at)
  PROVE  /\ pc'[p] = at /\ halted'[p] = halted[p] /\ runRc' \in {runRc, MB_OK}
         /\ UNCHANGED regs => /\ \A q : Reg(p, q)' = Reg(p, q)
                              /\ regs'[p][9] = regs[p][9]
         /\ \A r : Sets(p, r) => /\ \A q \in 0..9 : q # r => Reg(p, q)' = Reg(p, q)
                                 /\ r # 9 => regs'[p][9] = regs[p][9]
<1>1. pc'[p] = at /\ halted'[p] = halted[p] /\ runRc' \in {runRc, MB_OK}
  BY DEF Goes, MachineOK
<1>2. \A q \in 0..9 : q \in Regs
  BY DEF Regs
<1>3. ASSUME NEW r, Sets(p, r)
      PROVE  /\ \A q \in 0..9 : q # r => Reg(p, q)' = Reg(p, q)
             /\ r # 9 => regs'[p][9] = regs[p][9]
  <2>1. \A q \in 0..9 : q # r => regs'[p][q] = regs[p][q]
    BY <1>2, <1>3 DEF Sets
  <2> QED BY <2>1 DEF Reg
<1>4. UNCHANGED regs => (\A q : Reg(p, q)' = Reg(p, q)) /\ regs'[p][9] = regs[p][9]
  BY DEF Reg
<1> QED BY <1>1, <1>3, <1>4

\* A sensor's place is a number, and the numbers that matter.
LEMMA Places ==
  ASSUME NEW i \in Sensors
  PROVE  /\ JumpAt(FlowSpec.sensors[i]) \in {67, 68}
         /\ \A k \in {0, 6, 12, 18, 24, 30, 36, 42, 48, 55, 59, 66} : k \in SensorPlaces(i)
         /\ JumpAt(FlowSpec.sensors[i]) \in SensorPlaces(i)
         /\ \A k \in SensorPlaces(i) :
              k \in {0, 6, 12, 18, 24, 30, 36, 42, 48, 55, 59, 66, 67, 68}
  BY DEF SensorPlaces, JumpAt

\* It loads its constants once.
LEMMA SensorLoads ==
  ASSUME MachineOK, NEW i \in Sensors, running = i, Step(i), program[i] = Boot[i],
         SensorAt(i), UNCHANGED ready, pc[i] \in {0, 6, 12, 18, 24, 30, 36, 42}
  PROVE  SensorMoves(i)
<1> DEFINE s == FlowSpec.sensors[i]
<1>1. /\ RegCount >= 10 /\ PayloadHalf > 1000 /\ Channel \in 0..7 /\ i \in Pids
      /\ ValidSensor(s) /\ ActPid(FlowSpec) \in Int
  BY FlowFacts
<1>2. /\ s.bus \in 0..255 /\ s.addr \in 0..255 /\ s.reg \in 0..255 /\ s.poll_ms \in Int
      /\ CMD_PWM_SET_DUTY \in 0..255 /\ Channel \in 0..255 /\ 0 \in 0..255
  BY <1>1 DEF ValidSensor, CMD_PWM_SET_DUTY
<1>3. ASSUME NEW r \in 0..8, NEW v \in Int, At(i, const_i32(r, v))
      PROVE  /\ pc'[i] = pc[i] + 6 /\ ~halted'[i] /\ runRc' \in {runRc, MB_OK}
             /\ \A q \in 0..8 : q # r => Reg(i, q)' = Reg(i, q)
             /\ regs'[i][9] = regs[i][9]
             /\ v \in 0..255 => Reg(i, r)' = v
             /\ UNCHANGED mailbox /\ LeavesPwm(i)
  <2>1. /\ Goes(i, pc[i] + 6) /\ Sets(i, r) /\ UNCHANGED mailbox
        /\ v \in 0..255 => Reg(i, r)' = v
        /\ Byte(i, 0) # MB_OP_CALL_BIF
    BY <1>1, <1>3, ConstRuns
  <2>2. /\ pc'[i] = pc[i] + 6 /\ halted'[i] = halted[i] /\ runRc' \in {runRc, MB_OK}
        /\ \A q \in 0..9 : q # r => Reg(i, q)' = Reg(i, q)
        /\ r # 9 => regs'[i][9] = regs[i][9]
    BY <1>1, <2>1, GoneOn
  <2>3. ~halted[i]
    BY DEF SensorAt
  <2> QED BY <2>1, <2>2, <2>3 DEF LeavesPwm, Calls, Executing
<1>4. /\ pc[i] = 0  => At(i, const_i32(0, s.bus))
      /\ pc[i] = 6  => At(i, const_i32(1, s.addr))
      /\ pc[i] = 12 => At(i, const_i32(2, s.reg))
      /\ pc[i] = 18 => At(i, const_i32(3, ActPid(FlowSpec)))
      /\ pc[i] = 24 => At(i, const_i32(4, CMD_PWM_SET_DUTY))
      /\ pc[i] = 30 => At(i, const_i32(5, Channel))
      /\ pc[i] = 36 => At(i, const_i32(6, s.poll_ms))
      /\ pc[i] = 42 => At(i, const_i32(8, 0))
  BY SensorText
<1>5. PICK r \in 0..8, v \in Int :
        /\ At(i, const_i32(r, v))
        /\ \/ pc[i] = 0 /\ r = 0 /\ v = s.bus
           \/ pc[i] = 6 /\ r = 1 /\ v = s.addr
           \/ pc[i] = 12 /\ r = 2 /\ v = s.reg
           \/ pc[i] = 18 /\ r = 3
           \/ pc[i] = 24 /\ r = 4 /\ v = CMD_PWM_SET_DUTY
           \/ pc[i] = 30 /\ r = 5 /\ v = Channel
           \/ pc[i] = 36 /\ r = 6
           \/ pc[i] = 42 /\ r = 8 /\ v = 0
  <2>1. CASE pc[i] = 0
    <3>1. At(i, const_i32(0, s.bus)) /\ 0 \in 0..8 /\ s.bus \in Int
      BY <1>1, <1>2, <1>4, <2>1
    <3> QED BY <2>1, <3>1
  <2>2. CASE pc[i] = 6
    <3>1. At(i, const_i32(1, s.addr)) /\ 1 \in 0..8 /\ s.addr \in Int
      BY <1>1, <1>2, <1>4, <2>2
    <3> QED BY <2>2, <3>1
  <2>3. CASE pc[i] = 12
    <3>1. At(i, const_i32(2, s.reg)) /\ 2 \in 0..8 /\ s.reg \in Int
      BY <1>1, <1>2, <1>4, <2>3
    <3> QED BY <2>3, <3>1
  <2>4. CASE pc[i] = 18
    <3>1. At(i, const_i32(3, ActPid(FlowSpec))) /\ 3 \in 0..8 /\ ActPid(FlowSpec) \in Int
      BY <1>1, <1>2, <1>4, <2>4
    <3> QED BY <2>4, <3>1
  <2>5. CASE pc[i] = 24
    <3>1. At(i, const_i32(4, CMD_PWM_SET_DUTY)) /\ 4 \in 0..8 /\ CMD_PWM_SET_DUTY \in Int
      BY <1>1, <1>2, <1>4, <2>5
    <3> QED BY <2>5, <3>1
  <2>6. CASE pc[i] = 30
    <3>1. At(i, const_i32(5, Channel)) /\ 5 \in 0..8 /\ Channel \in Int
      BY <1>1, <1>2, <1>4, <2>6
    <3> QED BY <2>6, <3>1
  <2>7. CASE pc[i] = 36
    <3>1. At(i, const_i32(6, s.poll_ms)) /\ 6 \in 0..8 /\ s.poll_ms \in Int
      BY <1>1, <1>2, <1>4, <2>7
    <3> QED BY <2>7, <3>1
  <2>8. CASE pc[i] = 42
    <3>1. At(i, const_i32(8, 0)) /\ 8 \in 0..8 /\ 0 \in Int
      BY <1>1, <1>2, <1>4, <2>8
    <3> QED BY <2>8, <3>1
  <2> QED BY <2>1, <2>2, <2>3, <2>4, <2>5, <2>6, <2>7, <2>8
<1>6. /\ pc'[i] = pc[i] + 6 /\ ~halted'[i] /\ runRc' \in {runRc, MB_OK}
      /\ \A q \in 0..8 : q # r => Reg(i, q)' = Reg(i, q)
      /\ regs'[i][9] = regs[i][9]
      /\ v \in 0..255 => Reg(i, r)' = v
      /\ UNCHANGED mailbox /\ LeavesPwm(i)
  BY <1>3, <1>5
<1>7. SensorAt(i)'
  <2>1. /\ pc[i] >= 6  => Reg(i, 0) = s.bus
        /\ pc[i] >= 12 => Reg(i, 1) = s.addr
        /\ pc[i] >= 18 => Reg(i, 2) = s.reg
        /\ pc[i] >= 30 => Reg(i, 4) = CMD_PWM_SET_DUTY
        /\ pc[i] >= 36 => Reg(i, 5) = Channel
    BY DEF SensorAt, DeviceOf
  <2>2. pc'[i] \in {6, 12, 18, 24, 30, 36, 42, 48} /\ pc'[i] \in SensorPlaces(i)
    BY <1>6, Places
  <2>3. /\ Reg(i, 0)' = s.bus
        /\ pc'[i] >= 12 => Reg(i, 1)' = s.addr
        /\ pc'[i] >= 18 => Reg(i, 2)' = s.reg
        /\ pc'[i] >= 30 => Reg(i, 4)' = CMD_PWM_SET_DUTY
        /\ pc'[i] >= 36 => Reg(i, 5)' = Channel
        /\ pc'[i] >= 48 => Reg(i, 8)' = 0
    <3>1. /\ r # 0 => Reg(i, 0)' = Reg(i, 0)
          /\ r # 1 => Reg(i, 1)' = Reg(i, 1)
          /\ r # 2 => Reg(i, 2)' = Reg(i, 2)
          /\ r # 4 => Reg(i, 4)' = Reg(i, 4)
          /\ r # 5 => Reg(i, 5)' = Reg(i, 5)
      BY <1>6
    <3>2. /\ r = 0 => Reg(i, 0)' = v
          /\ r = 1 => Reg(i, 1)' = v
          /\ r = 2 => Reg(i, 2)' = v
          /\ r = 4 => Reg(i, 4)' = v
          /\ r = 5 => Reg(i, 5)' = v
          /\ r = 8 => Reg(i, 8)' = v
      <4>1. r \in {0, 1, 2, 4, 5, 8} => v \in {s.bus, s.addr, s.reg, CMD_PWM_SET_DUTY, Channel, 0}
        BY <1>5
      <4>2. r \in {0, 1, 2, 4, 5, 8} => v \in 0..255
        BY <1>2, <4>1
      <4>3. r \in {0, 1, 2, 4, 5, 8} => Reg(i, r)' = v
        BY <1>6, <4>2
      <4> QED BY <4>3
    <3> QED BY <1>5, <1>6, <2>1, <3>1, <3>2
  <2> QED BY <1>6, <2>2, <2>3 DEF SensorAt, DeviceOf, SensorPlaces
<1> QED BY <1>6, <1>7 DEF SensorMoves, Mails

\* In its loop it keeps them.
LEMMA SensorStays ==
  ASSUME NEW i \in Sensors, SensorAt(i), pc[i] \in {48, 55, 59, 66, JumpAt(FlowSpec.sensors[i])},
         UNCHANGED ready, ~halted'[i],
         pc'[i] \in {48, 55, 59, 66, JumpAt(FlowSpec.sensors[i])},
         \A q \in {0, 1, 2, 4, 5, 8} : Reg(i, q)' = Reg(i, q),
         pc'[i] \in {55, 59} => Reg(i, 7)' \in Answers(i)
  PROVE  SensorAt(i)'
<1>1. JumpAt(FlowSpec.sensors[i]) \in {67, 68}
  BY Places
<1>2. /\ Reg(i, 0) = FlowSpec.sensors[i].bus /\ Reg(i, 1) = DeviceOf(i)
      /\ Reg(i, 2) = FlowSpec.sensors[i].reg /\ Reg(i, 4) = CMD_PWM_SET_DUTY
      /\ Reg(i, 5) = Channel /\ Reg(i, 8) = 0
  BY <1>1 DEF SensorAt
<1>3. /\ Reg(i, 0)' = Reg(i, 0) /\ Reg(i, 1)' = Reg(i, 1) /\ Reg(i, 2)' = Reg(i, 2)
      /\ Reg(i, 4)' = Reg(i, 4) /\ Reg(i, 5)' = Reg(i, 5) /\ Reg(i, 8)' = Reg(i, 8)
  OBVIOUS
<1>4. (pc[i] \in SensorPlaces(i))'
  BY DEF SensorPlaces
<1>5. Answers(i)' = Answers(i)
  BY DEF Answers, Connected
<1>6. /\ (Reg(i, 0) = FlowSpec.sensors[i].bus)' /\ (Reg(i, 1) = DeviceOf(i))'
      /\ (Reg(i, 2) = FlowSpec.sensors[i].reg)' /\ (Reg(i, 4) = CMD_PWM_SET_DUTY)'
      /\ (Reg(i, 5) = Channel)' /\ (Reg(i, 8) = 0)'
  BY <1>2, <1>3 DEF DeviceOf, Channel, CMD_PWM_SET_DUTY
<1>7. (pc[i] \in {55, 59} => Reg(i, 7) \in Answers(i))'
  BY <1>5
<1> QED BY <1>4, <1>6, <1>7 DEF SensorAt

\* The read gives what the sensor's device has, or an error.
LEMMA SensorReads ==
  ASSUME MachineOK, NEW i \in Sensors, running = i, Step(i), program[i] = Boot[i],
         SensorAt(i), UNCHANGED ready, pc[i] = 48, DevicesAnswer,
         Calls(i, MB_BIF_I2C_READ_REG) => Returned(i) \in i2c_read_reg(RegInt(i, 3))
  PROVE  SensorMoves(i)
<1>1. /\ RegCount >= 10 /\ i \in Pids /\ i # 0 /\ ValidSensor(FlowSpec.sensors[i])
      /\ ~halted[i]
  BY FlowFacts DEF SensorAt, Pids
<1>2. At(i, <<OP_CALL_BIF, BIF_I2C_READ_REG, 3, 0, 1, 2, 7>>)
  BY SensorText
<1>3. /\ Reg(i, 0) = FlowSpec.sensors[i].bus /\ Reg(i, 1) = DeviceOf(i)
      /\ Reg(i, 2) = FlowSpec.sensors[i].reg
  BY DEF SensorAt
<1>4. Reg(i, 0) \in I2cBus /\ Reg(i, 1) \in I2cAddr /\ Reg(i, 2) \in U8
  BY <1>1, <1>3 DEF ValidSensor, DeviceOf, I2cBus, I2cAddr, U8
<1>5. /\ Goes(i, pc[i] + 7) /\ Sets(i, 7) /\ UNCHANGED mailbox
      /\ \A b : Calls(i, b) <=> b = MB_BIF_I2C_READ_REG
      /\ Returned(i) = Reg(i, 7)'
      /\ RegInt(i, 3) = Reg(i, 0) /\ RegInt(i, 4) = Reg(i, 1)
  BY <1>1, <1>2, <1>4, ReadRuns
<1>6. /\ Reg(i, 7)' \in DeviceReads[DeviceOf(i)] \cup {-1}
      /\ Reg(i, 7)' \in i2c_read_reg(FlowSpec.sensors[i].bus)
  BY <1>1, <1>3, <1>5 DEF DevicesAnswer
<1>7. Reg(i, 7)' \in Answers(i)
  <2>1. CASE Connected(i)
    BY <1>6, <2>1 DEF Answers
  <2>2. CASE ~Connected(i)
    <3>1. get_i2c_bus(FlowSpec.sensors[i].bus) = {}
      BY <2>2 DEF Connected, get_i2c_bus
    <3> QED BY <1>6, <2>2, <3>1 DEF Answers, i2c_read_reg
  <2> QED BY <2>1, <2>2
<1>8. /\ pc'[i] = 55 /\ halted'[i] = halted[i] /\ runRc' \in {runRc, MB_OK}
      /\ \A q \in 0..9 : q # 7 => Reg(i, q)' = Reg(i, q)
      /\ regs'[i][9] = regs[i][9]
  <2>1. pc[i] + 7 = 55 /\ 7 # 9
    OBVIOUS
  <2> QED BY <1>1, <1>5, <2>1, GoneOn
<1>9. SensorAt(i)'
  <2>1. \A q \in {0, 1, 2, 4, 5, 8} : Reg(i, q)' = Reg(i, q)
    BY <1>8
  <2> QED BY <1>1, <1>7, <1>8, <2>1, SensorStays
<1> QED BY <1>5, <1>8, <1>9, FlowBifs DEF SensorMoves, Mails, LeavesPwm

\* Then it notes the time.
LEMMA SensorLooks ==
  ASSUME MachineOK, NEW i \in Sensors, running = i, Step(i), program[i] = Boot[i],
         SensorAt(i), UNCHANGED ready, pc[i] = 55
  PROVE  SensorMoves(i)
<1>1. RegCount >= 10 /\ i \in Pids /\ ~halted[i] /\ Reg(i, 7) \in Answers(i)
  BY FlowFacts DEF SensorAt
<1>2. At(i, <<OP_CALL_BIF, BIF_MONOTONIC_MS, 0, 9>>)
  BY SensorText
<1>3. /\ Goes(i, pc[i] + 4) /\ Sets(i, 9) /\ UNCHANGED mailbox
      /\ \A b : Calls(i, b) <=> b = MB_BIF_MONOTONIC_MS
      /\ regs'[i][9] = MAKE_SMALLINT(Now)
  BY <1>1, <1>2, TimeRuns
<1>4. /\ pc'[i] = 59 /\ halted'[i] = halted[i] /\ runRc' \in {runRc, MB_OK}
      /\ \A q \in 0..9 : q # 9 => Reg(i, q)' = Reg(i, q)
  <2>1. pc[i] + 4 = 59
    OBVIOUS
  <2> QED BY <1>1, <1>3, <2>1, GoneOn
<1>5. SensorAt(i)'
  <2>1. \A q \in {0, 1, 2, 4, 5, 8} : Reg(i, q)' = Reg(i, q)
    BY <1>4
  <2>2. Reg(i, 7)' = Reg(i, 7)
    BY <1>4
  <2> QED BY <1>1, <1>4, <2>1, <2>2, SensorStays
<1> QED BY <1>3, <1>4, <1>5, FlowBifs DEF SensorMoves, Mails, LeavesPwm

\* It sends the reading; a push of an error code is refused.
LEMMA SensorSends ==
  ASSUME MachineOK, NEW i \in Sensors, running = i, Step(i), program[i] = Boot[i],
         SensorAt(i), UNCHANGED ready, pc[i] = 59
  PROVE  SensorMoves(i)
<1>1. /\ RegCount >= 10 /\ i \in Pids /\ ~halted[i] /\ Channel \in 0..7
      /\ Reg(i, 4) = CMD_PWM_SET_DUTY /\ Reg(i, 5) = Channel
      /\ Reg(i, 7) \in Answers(i) /\ Reg(i, 8) = 0
  BY FlowFacts DEF SensorAt
<1>2. At(i, <<OP_SEND, 3, 4, 5, 7, 8, 8>>)
  BY SensorText
<1> DEFINE cmd == [type |-> Reg(i, 4), a |-> Reg(i, 5), b |-> Reg(i, 7),
                   c |-> Reg(i, 8), d |-> Reg(i, 8)]
<1>3. /\ Goes(i, pc[i] + 7) /\ Sets(i, 3) /\ Byte(i, 0) # MB_OP_CALL_BIF
      /\ Posts(cmd)
  BY <1>1, <1>2, SendRuns
<1>4. /\ pc'[i] = 66 /\ halted'[i] = halted[i] /\ runRc' \in {runRc, MB_OK}
      /\ \A q \in 0..9 : q # 3 => Reg(i, q)' = Reg(i, q)
      /\ regs'[i][9] = regs[i][9]
  <2>1. pc[i] + 7 = 66 /\ 3 # 9
    OBVIOUS
  <2> QED BY <1>1, <1>3, <2>1, GoneOn
<1>5. SensorAt(i)'
  <2>1. \A q \in {0, 1, 2, 4, 5, 8} : Reg(i, q)' = Reg(i, q)
    BY <1>4
  <2> QED BY <1>1, <1>4, <2>1, SensorStays
<1>6. ASSUME NEW q \in Pids, PushStatus(mailbox[q], cmd) = MB_OK
      PROVE  cmd \in FlowCommands
  <2>1. ValidateCommand(cmd) = MB_OK
    <3>1. mailbox[q] \in Mailbox
      BY DEF MachineOK
    <3> QED BY <1>6, <3>1, PushStatusOk
  <2>2. Reg(i, 7) \in PwmPermille
    <3>1. cmd.type = MB_CMD_PWM_SET_DUTY /\ cmd.b = Reg(i, 7)
      BY <1>1 DEF CMD_PWM_SET_DUTY, MB_CMD_PWM_SET_DUTY
    <3>2. ArgumentsValid(cmd)
      BY <2>1 DEF ValidateCommand, MB_OK, MB_INVALID_COMMAND, MB_BAD_ARGUMENT
    <3> HIDE DEF cmd
    <3> QED BY <3>1, <3>2 DEF ArgumentsValid, MB_CMD_NONE, MB_CMD_GPIO_WRITE,
              MB_CMD_PWM_SET_DUTY, MB_CMD_I2C_READ, MB_CMD_GPIO_READ, MB_CMD_I2C_WRITE,
              MB_CMD_PWM_CONFIG
  <2>3. Reg(i, 7) \in GoodReadings
    BY <1>1, <2>2 DEF Answers, GoodReadings, PwmPermille
  <2>4. cmd \in Command
    <3>1. \A r \in 0..9 : Reg(i, r) \in Int
      <4>1. regs[i] \in [Regs -> Term] /\ \A r \in 0..9 : r \in Regs
        BY <1>1 DEF MachineOK, RegFiles, Regs
      <4>2. \A r \in 0..9 : regs[i][r] \in Term
        BY <4>1
      <4> QED BY <4>2 DEF Reg, GET_SMALLINT, Term
    <3>2. Reg(i, 4) \in Int /\ Reg(i, 5) \in Int /\ Reg(i, 7) \in Int /\ Reg(i, 8) \in Int
      BY <3>1
    <3> QED BY <3>2 DEF Command
  <2> QED BY <1>1, <2>1, <2>3, <2>4 DEF FlowCommands
<1>7. Mails
  BY <1>3, <1>6 DEF Posts, Mails
<1> QED BY <1>3, <1>4, <1>5, <1>7 DEF SensorMoves, LeavesPwm, Calls, Executing

\* It rests, and begins its loop again.
LEMMA SensorRests ==
  ASSUME MachineOK, NEW i \in Sensors, running = i, Step(i), program[i] = Boot[i],
         SensorAt(i), UNCHANGED ready, pc[i] = 66
  PROVE  SensorMoves(i)
<1>1. RegCount >= 10 /\ i \in Pids /\ ~halted[i]
  BY FlowFacts DEF SensorAt
<1> DEFINE at == JumpAt(FlowSpec.sensors[i])
<1>2. /\ Goes(i, at) /\ running' = 0 /\ UNCHANGED <<regs, mailbox>>
      /\ Byte(i, 0) # MB_OP_CALL_BIF
  <2>1. CASE FlowSpec.sensors[i].poll_ms = 0
    <3>1. At(i, <<OP_YIELD>>) /\ at = pc[i] + 1
      BY <2>1, SensorText DEF JumpAt
    <3> QED BY <1>1, <3>1, YieldRuns
  <2>2. CASE FlowSpec.sensors[i].poll_ms # 0
    <3>1. At(i, <<OP_SLEEP_MS, 6>>) /\ at = pc[i] + 2
      BY <2>2, SensorText DEF JumpAt
    <3> QED BY <1>1, <3>1, SleepRuns
  <2> QED BY <2>1, <2>2
<1>3. /\ pc'[i] = at /\ halted'[i] = halted[i] /\ runRc' \in {runRc, MB_OK}
      /\ \A q : Reg(i, q)' = Reg(i, q)
      /\ regs'[i][9] = regs[i][9]
  <2> HIDE DEF at
  <2> QED BY <1>1, <1>2, GoneOn
<1>4. at \in {67, 68}
  BY Places
<1>5. SensorAt(i)'
  BY <1>1, <1>3, <1>4, SensorStays
<1> QED BY <1>2, <1>3, <1>5 DEF SensorMoves, Mails, LeavesPwm, Calls, Executing

LEMMA SensorReturns ==
  ASSUME MachineOK, NEW i \in Sensors, running = i, Step(i), program[i] = Boot[i],
         SensorAt(i), UNCHANGED ready, pc[i] = JumpAt(FlowSpec.sensors[i])
  PROVE  SensorMoves(i)
<1> DEFINE at == JumpAt(FlowSpec.sensors[i])
           v == 48 - (at + 5)
           n == at + 5
<1>1. RegCount >= 10 /\ i \in Pids /\ ~halted[i]
  BY FlowFacts DEF SensorAt
<1>2. /\ at \in {67, 68} /\ v \in (-256)..255 /\ n \in Nat
      /\ pc[i] + 5 <= n /\ pc[i] + 5 + v = 48 /\ 0 <= pc[i] + 5 + v /\ pc[i] + 5 + v <= n
  BY Places
<1>3. At(i, <<OP_JMP>>) /\ Has(Text(i), pc[i] + 1, i32le(v)) /\ Bytes(Text(i), n)
  BY SensorText
<1> HIDE DEF v, n, at
<1>4. /\ Goes(i, pc[i] + 5 + v) /\ UNCHANGED <<regs, mailbox>>
      /\ Byte(i, 0) # MB_OP_CALL_BIF
  BY <1>1, <1>2, <1>3, JumpRuns
<1>5. /\ pc'[i] = 48 /\ halted'[i] = halted[i] /\ runRc' \in {runRc, MB_OK}
      /\ \A q : Reg(i, q)' = Reg(i, q)
      /\ regs'[i][9] = regs[i][9]
  BY <1>1, <1>2, <1>4, GoneOn
<1>6. SensorAt(i)'
  BY <1>1, <1>5, SensorStays
<1> QED BY <1>2, <1>4, <1>5, <1>6 DEF SensorMoves, Mails, LeavesPwm, Calls, Executing, at

\* So wherever it is.
LEMMA SensorRuns ==
  ASSUME MachineOK, NEW i \in Sensors, running = i, Step(i), program[i] = Boot[i],
         SensorAt(i), UNCHANGED ready, DevicesAnswer,
         Calls(i, MB_BIF_I2C_READ_REG) => Returned(i) \in i2c_read_reg(RegInt(i, 3))
  PROVE  SensorMoves(i)
<1>1. \/ pc[i] \in {0, 6, 12, 18, 24, 30, 36, 42}
      \/ pc[i] = 48 \/ pc[i] = 55 \/ pc[i] = 59 \/ pc[i] = 66
      \/ pc[i] = JumpAt(FlowSpec.sensors[i])
  BY DEF SensorAt, SensorPlaces
<1> QED BY <1>1, SensorLoads, SensorReads, SensorLooks, SensorSends, SensorRests,
           SensorReturns

-----------------------------------------------------------------------------
(* The steps of the actuator.                                              *)

\* The instruction at each place of the actuator.
LEMMA ActuatorText ==
  ASSUME program[ProcA] = Boot[ProcA]
  PROVE  /\ pc[ProcA] = 0  => At(ProcA, <<OP_RECV_CMD, 0, 1, 2, 3, 4>>)
         /\ pc[ProcA] = 6  => At(ProcA, <<OP_CALL_BIF, BIF_PWM_SET_DUTY, 2, 1, 2, 5>>)
         /\ pc[ProcA] = 12 => At(ProcA, <<OP_JMP>>)
         /\ Has(Text(ProcA), 13, i32le(-17))
         /\ Bytes(Text(ProcA), 17)
<1> DEFINE code == Text(ProcA)
           recv == <<OP_RECV_CMD, 0, 1, 2, 3, 4>>
           duty == <<OP_CALL_BIF, BIF_PWM_SET_DUTY, 2, 1, 2, 5>>
           jump == <<OP_JMP>>
<1>1. code = compile_actuator
  BY FlowFacts DEF Text
<1>2. Bytes(recv, 6) /\ Bytes(duty, 6) /\ Bytes(jump, 1)
  BY DEF Bytes, OP_RECV_CMD, OP_CALL_BIF, BIF_PWM_SET_DUTY, OP_JMP
<1> HIDE DEF code, recv, duty, jump
<1>3. /\ Bytes(code, 17) /\ Has(code, 0, recv) /\ Has(code, 6, duty) /\ Has(code, 12, jump)
      /\ Has(code, 13, i32le(-17))
  BY <1>1, ActuatorBytes DEF recv, duty, jump
<1>4. ASSUME NEW k \in Nat, NEW part, NEW m \in Nat, Bytes(part, m), Has(code, k, part),
             k + m <= 17, pc[ProcA] = k
      PROVE  At(ProcA, part)
  BY <1>3, <1>4, AtPart DEF code
<1>5. pc[ProcA] = 0 => At(ProcA, recv)
  BY <1>2, <1>3, <1>4, 0 + 6 <= 17
<1>6. pc[ProcA] = 6 => At(ProcA, duty)
  BY <1>2, <1>3, <1>4, 6 + 6 <= 17
<1>7. pc[ProcA] = 12 => At(ProcA, jump)
  BY <1>2, <1>3, <1>4, 12 + 1 <= 17
<1> QED BY <1>3, <1>5, <1>6, <1>7 DEF code, recv, duty, jump

\* Which commands are the flow's depends on the board only.
LEMMA GoodStays ==
  ASSUME UNCHANGED ready
  PROVE  GoodReadings' = GoodReadings /\ FlowCommands' = FlowCommands
<1>1. \A i : Connected(i)' = Connected(i)
  BY DEF Connected
<1>2. GoodReadings' = GoodReadings
  BY <1>1 DEF GoodReadings
<1> QED BY <1>2 DEF FlowCommands

\* What the actuator's instruction does.
ActuatorMoves ==
  /\ ActuatorAt'
  /\ \/ UNCHANGED mailbox
     \/ /\ mailbox[ProcA].count # 0
        /\ mailbox' = [mailbox EXCEPT ![ProcA] = Popped(@)]
  /\ runRc' \in {runRc, MB_OK}
  /\ \/ LeavesPwm(ProcA)
     \/ /\ ~Calls(ProcA, MB_BIF_PWM_CONFIG)
        /\ RegInt(ProcA, 3) = Channel /\ RegInt(ProcA, 4) \in GoodReadings

\* It waits for a command and takes it.
LEMMA ActuatorReceives ==
  ASSUME MachineOK, running = ProcA, Step(ProcA), program[ProcA] = Boot[ProcA],
         ActuatorAt, UNCHANGED ready, Holds(mailbox[ProcA], FlowCommands), pc[ProcA] = 0
  PROVE  ActuatorMoves
<1>1. /\ RegCount >= 10 /\ ProcA \in Pids /\ ~halted[ProcA] /\ Channel \in 0..7
      /\ PayloadHalf > 1000
  BY FlowFacts DEF ActuatorAt
<1>2. At(ProcA, <<OP_RECV_CMD, 0, 1, 2, 3, 4>>)
  BY ActuatorText
<1> DEFINE mb == mailbox[ProcA]
           cmd == First(mb)
<1>3. /\ Byte(ProcA, 0) # MB_OP_CALL_BIF
      /\ \/ Goes(ProcA, pc[ProcA]) /\ UNCHANGED <<regs, mailbox>>
         \/ /\ Goes(ProcA, pc[ProcA] + 6)
            /\ mb.count # 0
            /\ mailbox' = [mailbox EXCEPT ![ProcA] = Popped(@)]
            /\ ValidateCommand(cmd) = MB_OK =>
                 /\ regs'[ProcA][1] = MAKE_SMALLINT(cmd.a)
                 /\ regs'[ProcA][2] = MAKE_SMALLINT(cmd.b)
  BY <1>1, <1>2, RecvRuns
<1>4. LeavesPwm(ProcA)
  BY <1>3 DEF LeavesPwm, Calls, Executing
<1>5. CASE Goes(ProcA, pc[ProcA]) /\ UNCHANGED <<regs, mailbox>>
  <2>1. pc'[ProcA] = 0 /\ halted'[ProcA] = halted[ProcA] /\ runRc' \in {runRc, MB_OK}
    BY <1>1, <1>5, GoneOn
  <2> QED BY <1>1, <1>4, <1>5, <2>1 DEF ActuatorMoves, ActuatorAt
<1>6. CASE /\ Goes(ProcA, pc[ProcA] + 6)
           /\ mb.count # 0
           /\ mailbox' = [mailbox EXCEPT ![ProcA] = Popped(@)]
           /\ ValidateCommand(cmd) = MB_OK =>
                /\ regs'[ProcA][1] = MAKE_SMALLINT(cmd.a)
                /\ regs'[ProcA][2] = MAKE_SMALLINT(cmd.b)
  <2>1. cmd \in FlowCommands
    <3>1. mb \in Mailbox
      BY <1>1 DEF MachineOK
    <3> HIDE DEF mb
    <3>2. cmd = Head(Contents(mb)) /\ Contents(mb) # << >>
      BY <1>6, <3>1, PoppedContents
    <3>3. Contents(mb) \in Seq(Command) /\ 1 \in 1..mb.count
      BY <1>6, <3>1, ContentsType, MailboxFields
    <3>4. Contents(mb)[1] \in FlowCommands
      BY <3>3 DEF Holds, mb
    <3> QED BY <3>2, <3>3, <3>4, HeadTailProperties
  <2>2. ValidateCommand(cmd) = MB_OK /\ cmd.a = Channel /\ cmd.b \in GoodReadings
    BY <2>1 DEF FlowCommands
  <2> HIDE DEF cmd
  <2>3. /\ Channel \in (-PayloadHalf)..(PayloadHalf - 1)
        /\ cmd.b \in (-PayloadHalf)..(PayloadHalf - 1)
    BY <1>1, <2>2 DEF GoodReadings, PwmPermille
  <2>4. Reg(ProcA, 1)' = Channel /\ Reg(ProcA, 2)' = cmd.b
    BY <1>6, <2>2, <2>3, PayloadKeeps DEF Reg
  <2>5. pc'[ProcA] = 6 /\ halted'[ProcA] = halted[ProcA] /\ runRc' \in {runRc, MB_OK}
    <3>1. pc[ProcA] + 6 = 6
      OBVIOUS
    <3> QED BY <1>1, <1>6, <3>1, GoneOn
  <2>6. (Reg(ProcA, 1) = Channel)' /\ (Reg(ProcA, 2) \in GoodReadings)'
    BY <2>2, <2>4, GoodStays DEF Channel
  <2>7. ActuatorAt'
    BY <1>1, <2>5, <2>6 DEF ActuatorAt
  <2> QED BY <1>4, <1>6, <2>5, <2>7 DEF ActuatorMoves
<1> QED BY <1>3, <1>5, <1>6

\* It sets the duty that the command asks for.
LEMMA ActuatorSets ==
  ASSUME MachineOK, running = ProcA, Step(ProcA), program[ProcA] = Boot[ProcA],
         ActuatorAt, UNCHANGED ready, pc[ProcA] = 6
  PROVE  ActuatorMoves
<1>1. RegCount >= 10 /\ ProcA \in Pids /\ ~halted[ProcA] /\ Channel \in 0..7
  BY FlowFacts DEF ActuatorAt
<1>2. At(ProcA, <<OP_CALL_BIF, BIF_PWM_SET_DUTY, 2, 1, 2, 5>>)
  BY ActuatorText
<1>3. /\ Reg(ProcA, 1) = Channel /\ Reg(ProcA, 2) \in GoodReadings
      /\ Reg(ProcA, 1) \in PwmChannel /\ Reg(ProcA, 2) \in PwmPermille
  BY <1>1 DEF ActuatorAt, GoodReadings, PwmChannel
<1>4. /\ Goes(ProcA, pc[ProcA] + 6) /\ Sets(ProcA, 5) /\ UNCHANGED mailbox
      /\ RegInt(ProcA, 3) = Reg(ProcA, 1) /\ RegInt(ProcA, 4) = Reg(ProcA, 2)
      /\ ~Calls(ProcA, MB_BIF_PWM_CONFIG)
  BY <1>1, <1>2, <1>3, DutyRuns DEF MB_BIF_PWM_SET_DUTY, MB_BIF_PWM_CONFIG
<1>5. pc'[ProcA] = 12 /\ halted'[ProcA] = halted[ProcA] /\ runRc' \in {runRc, MB_OK}
  <2>1. pc[ProcA] + 6 = 12
    OBVIOUS
  <2> QED BY <1>1, <1>4, <2>1, GoneOn
<1> QED BY <1>1, <1>3, <1>4, <1>5 DEF ActuatorMoves, ActuatorAt

\* It begins again.
LEMMA ActuatorReturns ==
  ASSUME MachineOK, running = ProcA, Step(ProcA), program[ProcA] = Boot[ProcA],
         ActuatorAt, UNCHANGED ready, pc[ProcA] = 12
  PROVE  ActuatorMoves
<1>1. RegCount >= 10 /\ ProcA \in Pids /\ ~halted[ProcA]
  BY FlowFacts DEF ActuatorAt
<1>2. At(ProcA, <<OP_JMP>>) /\ Has(Text(ProcA), 13, i32le(-17)) /\ Bytes(Text(ProcA), 17)
  BY ActuatorText
<1>3. /\ pc[ProcA] + 1 = 13 /\ -17 \in (-256)..255 /\ pc[ProcA] + 5 <= 17 /\ 17 \in Nat
      /\ 0 <= pc[ProcA] + 5 + (-17) /\ pc[ProcA] + 5 + (-17) <= 17
      /\ pc[ProcA] + 5 + (-17) = 0
  OBVIOUS
<1> DEFINE v == -17
<1>4. /\ Has(Text(ProcA), pc[ProcA] + 1, i32le(v)) /\ v \in (-256)..255
      /\ 0 <= pc[ProcA] + 5 + v /\ pc[ProcA] + 5 + v <= 17 /\ pc[ProcA] + 5 + v = 0
  BY <1>2, <1>3
<1> HIDE DEF v
<1>5. /\ Goes(ProcA, pc[ProcA] + 5 + v) /\ UNCHANGED <<regs, mailbox>>
      /\ Byte(ProcA, 0) # MB_OP_CALL_BIF
  BY <1>1, <1>2, <1>3, <1>4, JumpRuns
<1>6. pc'[ProcA] = 0 /\ halted'[ProcA] = halted[ProcA] /\ runRc' \in {runRc, MB_OK}
  BY <1>1, <1>4, <1>5, GoneOn
<1> QED BY <1>1, <1>5, <1>6 DEF ActuatorMoves, ActuatorAt, LeavesPwm, Calls, Executing

\* So wherever it is.
LEMMA ActuatorRuns ==
  ASSUME MachineOK, running = ProcA, Step(ProcA), program[ProcA] = Boot[ProcA],
         ActuatorAt, UNCHANGED ready, Holds(mailbox[ProcA], FlowCommands)
  PROVE  ActuatorMoves
<1>1. pc[ProcA] = 0 \/ pc[ProcA] = 6 \/ pc[ProcA] = 12
  BY DEF ActuatorAt
<1> QED BY <1>1, ActuatorReceives, ActuatorSets, ActuatorReturns

-----------------------------------------------------------------------------
(* A flow keeps going.                                                     *)

\* Every process that main has spawned is where its program has it, ...
FlowPlaces == /\ \A i \in Sensors : i <= count => SensorAt(i)
              /\ ProcA <= count => ActuatorAt

\* ... only commands of the flow are waiting, ...
FlowMail == \A p \in Pids : Holds(mailbox[p], FlowCommands)

\* ... and only good readings are on the wire.
FlowWire ==
  /\ wire \in [PwmChannel -> {NoSignal} \cup {Signal(v) : v \in GoodReadings}]
  /\ \A c \in PwmChannel : wire[c] # NoSignal => c = Channel

FlowInv == FlowPlaces /\ FlowMail /\ FlowWire /\ FlowNeverFaults

\* What the scheduler's proofs give of the firmware.
Firm == IInv /\ MailInv /\ Spawned /\ LoadedInOrder

\* The process that runs is one of the flow's.
LEMMA RunsAFlow ==
  ASSUME Firm, NEW p \in Pids, running = p
  PROVE  p <= count /\ program[p] = Boot[p] /\ (p \in Sensors \/ p = ProcA)
<1>1. state[p] # "FREE"
  BY RunningFacts DEF Firm
<1>2. p <= count
  BY <1>1 DEF Firm, IInv, TypeOK, FreeAfterCount, Pids
<1>3. program[p] = Boot[p] /\ p <= ProcA
  BY <1>2 DEF Firm, LoadedInOrder, Spawned, ProcA, IInv, TypeOK, Pids
<1> QED BY <1>2, <1>3, FlowFacts

\* A process that is left alone stays where it is.
LEMMA PlaceKept ==
  ASSUME UNCHANGED ready, NEW p, UNCHANGED <<pc[p], regs[p], halted[p]>>
  PROVE  /\ p \in Sensors /\ SensorAt(p) => SensorAt(p)'
         /\ p = ProcA /\ ActuatorAt => ActuatorAt'
<1>1. \A q : Reg(p, q)' = Reg(p, q)
  BY DEF Reg
<1>2. ASSUME p \in Sensors, SensorAt(p) PROVE SensorAt(p)'
  <2>1. Answers(p)' = Answers(p)
    BY DEF Answers, Connected
  <2> QED BY <1>1, <1>2, <2>1 DEF SensorAt, SensorPlaces, DeviceOf, Channel, CMD_PWM_SET_DUTY
<1>3. ASSUME p = ProcA, ActuatorAt PROVE ActuatorAt'
  BY <1>1, <1>3, GoodStays DEF ActuatorAt, Channel
<1> QED BY <1>2, <1>3

\* A step of one process leaves the others' places.
LEMMA PlacesKept ==
  ASSUME Firm, FlowPlaces, UNCHANGED <<ready, count>>, NEW p \in Pids, Step(p),
         p \in Sensors => SensorAt(p)', p = ProcA => ActuatorAt'
  PROVE  FlowPlaces'
<1>1. \A q \in Pids : q # p => UNCHANGED <<pc[q], regs[q], halted[q]>>
  BY StepKeepsOthers DEF Firm
<1>2. Sensors \subseteq Pids /\ ProcA \in Pids
  BY FlowFacts
<1>3. ASSUME NEW i \in Sensors, i <= count PROVE SensorAt(i)'
  BY <1>1, <1>2, <1>3, PlaceKept DEF FlowPlaces
<1>4. ASSUME ProcA <= count PROVE ActuatorAt'
  BY <1>1, <1>2, <1>4, PlaceKept DEF FlowPlaces
<1> QED BY <1>3, <1>4 DEF FlowPlaces, Sensors, ProcA

\* A push of a command of the flow's and a pop leave such commands only.
LEMMA FlowMailKept ==
  ASSUME Firm, FlowMail, UNCHANGED ready,
         \/ UNCHANGED mailbox
         \/ \E q \in Pids : \E next :
              /\ mailbox' = [mailbox EXCEPT ![q] = next]
              /\ \/ mailbox[q].count # 0 /\ next = Popped(mailbox[q])
                 \/ \E cmd \in FlowCommands : /\ PushStatus(mailbox[q], cmd) = MB_OK
                                            /\ next = Pushed(mailbox[q], cmd)
                 \/ next = EmptyMailbox
  PROVE  FlowMail'
<1>1. \A p \in Pids : mailbox[p] \in Mailbox /\ RingWellFormed(mailbox[p])
  BY DEF Firm, IInv, TypeOK, MailInv, MailboxesSound
<1>2. CASE UNCHANGED mailbox
  BY <1>2, GoodStays DEF FlowMail, Holds
<1>3. CASE \E q \in Pids : \E next :
              /\ mailbox' = [mailbox EXCEPT ![q] = next]
              /\ \/ mailbox[q].count # 0 /\ next = Popped(mailbox[q])
                 \/ \E cmd \in FlowCommands : /\ PushStatus(mailbox[q], cmd) = MB_OK
                                            /\ next = Pushed(mailbox[q], cmd)
                 \/ next = EmptyMailbox
  <2>q. PICK q \in Pids : \E next :
              /\ mailbox' = [mailbox EXCEPT ![q] = next]
              /\ \/ mailbox[q].count # 0 /\ next = Popped(mailbox[q])
                 \/ \E cmd \in FlowCommands : /\ PushStatus(mailbox[q], cmd) = MB_OK
                                            /\ next = Pushed(mailbox[q], cmd)
                 \/ next = EmptyMailbox
    BY <1>3
  <2>1. PICK next :
              /\ mailbox' = [mailbox EXCEPT ![q] = next]
              /\ \/ mailbox[q].count # 0 /\ next = Popped(mailbox[q])
                 \/ \E cmd \in FlowCommands : /\ PushStatus(mailbox[q], cmd) = MB_OK
                                            /\ next = Pushed(mailbox[q], cmd)
                 \/ next = EmptyMailbox
    BY <2>q
  <2>2. FlowCommands \subseteq Command
    BY DEF FlowCommands
  <2>3. Holds(EmptyMailbox, FlowCommands)
    BY DEF Holds, EmptyMailbox
  <2>4. Holds(next, FlowCommands)
    <3>1. CASE next = EmptyMailbox
      BY <2>3, <3>1
    <3>2. CASE next # EmptyMailbox
      <4> DEFINE S == FlowCommands
                 mb == mailbox[q]
      <4>1. mb \in Mailbox /\ RingWellFormed(mb) /\ Holds(mb, S)
        BY <1>1 DEF FlowMail
      <4>2. \/ mb.count # 0 /\ next = Popped(mb)
            \/ \E cmd \in Command : /\ PushStatus(mb, cmd) = MB_OK /\ cmd \in S
                                  /\ next = Pushed(mb, cmd)
        BY <2>1, <2>2, <3>2
      <4> HIDE DEF S, mb
      <4>3. Holds(next, S)
        BY <4>1, <4>2, MoveHolds
      <4> QED BY <4>3 DEF S
    <3> QED BY <3>1, <3>2
  <2>5. ASSUME NEW p \in Pids PROVE Holds(mailbox'[p], FlowCommands)
    <3>1. mailbox'[p] = next \/ mailbox'[p] = mailbox[p]
      BY <2>1 DEF Firm, IInv, TypeOK
    <3> QED BY <2>4, <3>1 DEF FlowMail
  <2> QED BY <2>5, GoodStays DEF FlowMail, Holds
<1> QED BY <1>2, <1>3

\* What is on the wire is good for as long as the board is the same.
LEMMA FlowWireKept ==
  ASSUME FlowWire, UNCHANGED ready,
         \/ UNCHANGED wire
         \/ \E v \in GoodReadings : wire' = [wire EXCEPT ![Channel] = Signal(v)]
  PROVE  FlowWire'
<1>1. GoodReadings' = GoodReadings /\ Channel \in PwmChannel
  BY GoodStays, FlowFacts DEF PwmChannel
<1> DEFINE S == {NoSignal} \cup {Signal(v) : v \in GoodReadings}
<1>2. S' = S
  BY <1>1 DEF NoSignal, Signal
<1>3. /\ wire \in [PwmChannel -> S]
      /\ \A c \in PwmChannel : wire[c] # NoSignal => c = Channel
  BY DEF FlowWire
<1>4. /\ wire' \in [PwmChannel -> S]
      /\ \A c \in PwmChannel : wire'[c] # NoSignal => c = Channel
  <2>1. CASE UNCHANGED wire
    BY <1>3, <2>1
  <2>2. CASE \E v \in GoodReadings : wire' = [wire EXCEPT ![Channel] = Signal(v)]
    <3>1. PICK v \in GoodReadings : wire' = [wire EXCEPT ![Channel] = Signal(v)]
      BY <2>2
    <3>2. Signal(v) \in S
      OBVIOUS
    <3> HIDE DEF S
    <3> QED BY <1>1, <1>3, <3>1, <3>2
  <2> QED BY <2>1, <2>2
<1> QED BY <1>2, <1>4 DEF FlowWire, NoSignal, Channel

\* A step that does not call the PWM leaves it alone.
LEMMA UnwiredStays ==
  ASSUME NEW p \in Pids, LeavesPwm(p), wire' = Wired(p)
  PROVE  UNCHANGED wire
BY DEF LeavesPwm, PwmBifs, Wired, SetsPwm

\* An instruction of one of the flow's processes.
LEMMA FlowRuns ==
  ASSUME Firm, FlowInv, BoardRun, DevicesAnswer
  PROVE  FlowInv'
<1>1. PICK p \in Pids :
        /\ Step(p) /\ UNCHANGED <<current, count>>
        /\ Calls(p, MB_BIF_I2C_READ_REG) => Returned(p) \in i2c_read_reg(RegInt(p, 3))
        /\ wire' = Wired(p)
  BY DEF BoardRun, Run, Answered
<1>2. UNCHANGED ready
  BY DEF BoardRun
<1>3. MachineOK /\ running = p
  BY <1>1, MachineSound, StepEnds DEF Firm
<1>4. p <= count /\ program[p] = Boot[p] /\ (p \in Sensors \/ p = ProcA)
  BY <1>3, RunsAFlow
<1>5. CASE p \in Sensors
  <2>1. SensorMoves(p)
    BY <1>1, <1>2, <1>3, <1>4, <1>5, SensorRuns DEF FlowInv, FlowPlaces
  <2>2. p # ProcA
    BY <1>5, FlowFacts
  <2>3. FlowPlaces'
    BY <1>1, <1>2, <2>1, <2>2, PlacesKept DEF FlowInv, SensorMoves
  <2>4. FlowMail'
    BY <1>2, <2>1, FlowMailKept DEF FlowInv, SensorMoves, Mails
  <2>5. FlowWire'
    <3>1. UNCHANGED wire
      BY <1>1, <2>1, UnwiredStays DEF SensorMoves
    <3> QED BY <1>2, <3>1, FlowWireKept DEF FlowInv
  <2> QED BY <2>1, <2>3, <2>4, <2>5 DEF FlowInv, FlowNeverFaults, SensorMoves
<1>6. CASE p = ProcA
  <2>1. ActuatorMoves
    BY <1>1, <1>2, <1>3, <1>4, <1>6, ActuatorRuns DEF FlowInv, FlowPlaces, FlowMail
  <2>2. p \notin Sensors
    BY <1>6, FlowFacts
  <2>3. FlowPlaces'
    BY <1>1, <1>2, <2>1, <2>2, PlacesKept DEF FlowInv, ActuatorMoves
  <2>4. FlowMail'
    BY <1>2, <1>6, <2>1, FlowMailKept DEF FlowInv, ActuatorMoves
  <2>5. FlowWire'
    <3>1. CASE LeavesPwm(p)
      BY <1>1, <1>2, <3>1, UnwiredStays, FlowWireKept DEF FlowInv
    <3>2. CASE ~LeavesPwm(p)
      <4>1. /\ ~Calls(p, MB_BIF_PWM_CONFIG)
            /\ RegInt(p, 3) = Channel /\ RegInt(p, 4) \in GoodReadings
        BY <1>6, <2>1, <3>2 DEF ActuatorMoves
      <4>2. Channel \in PwmChannel /\ RegInt(p, 4) \in PwmPermille
        BY <4>1, FlowFacts DEF PwmChannel, GoodReadings
      <4>3. ChannelArg(p) = Channel /\ PermilleArg(p) = RegInt(p, 4)
        BY <1>1, <4>1, <4>2, CastsKeepChecked
      <4>4. wire' \in {wire, [wire EXCEPT ![Channel] = Signal(RegInt(p, 4))]}
        BY <1>1, <4>1, <4>3 DEF Wired, SetsPwm
      <4> QED BY <1>2, <4>1, <4>4, FlowWireKept DEF FlowInv
    <3> QED BY <3>1, <3>2
  <2> QED BY <2>1, <2>3, <2>4, <2>5 DEF FlowInv, FlowNeverFaults, ActuatorMoves
<1> QED BY <1>4, <1>5, <1>6

\* A process begins its program with nothing in its mailbox.
LEMMA FlowSpawns ==
  ASSUME Firm, FlowInv, LoopSpawn, UNCHANGED <<ready, wire>>
  PROVE  FlowInv'
<1> DEFINE p == count + 1
<1>1. /\ p \in Pids /\ p # 0 /\ state[p] = "FREE" /\ ProcInit(p, Boot[p])
      /\ count' = p /\ UNCHANGED runRc
  BY SpawnTakesNext DEF Firm, LoopSpawn, SpawnNext, Spawn, Pids
<1>2. count \in Nat /\ p > count
  BY DEF Firm, IInv, TypeOK
<1>3. /\ pc'[p] = 0 /\ ~halted'[p]
      /\ \A q \in Pids : q # p => UNCHANGED <<pc[q], regs[q], halted[q]>>
      /\ mailbox' = [mailbox EXCEPT ![p] = EmptyMailbox]
  BY <1>1 DEF ProcInit, Firm, IInv, TypeOK
<1>4. Sensors \subseteq Pids /\ ProcA \in Pids
  BY FlowFacts
<1>5. \A q \in Pids : q <= p /\ q # p => q <= count
  BY <1>2 DEF Pids
<1> HIDE DEF p
<1>6. ASSUME NEW i \in Sensors, i <= p PROVE SensorAt(i)'
  <2>1. CASE i = p
    BY <1>3, <2>1 DEF SensorAt, SensorPlaces
  <2>2. CASE i # p
    <3>1. i <= count /\ UNCHANGED <<pc[i], regs[i], halted[i]>>
      BY <1>3, <1>4, <1>5, <1>6, <2>2
    <3> QED BY <3>1, PlaceKept DEF FlowInv, FlowPlaces
  <2> QED BY <2>1, <2>2
<1>7. ASSUME ProcA <= p PROVE ActuatorAt'
  <2>1. CASE ProcA = p
    BY <1>3, <2>1 DEF ActuatorAt, ProcA
  <2>2. CASE ProcA # p
    <3>1. ProcA <= count /\ UNCHANGED <<pc[ProcA], regs[ProcA], halted[ProcA]>>
      BY <1>3, <1>4, <1>5, <1>7, <2>2
    <3> QED BY <3>1, PlaceKept DEF FlowInv, FlowPlaces
  <2> QED BY <2>1, <2>2
<1>8. FlowPlaces'
  BY <1>1, <1>6, <1>7 DEF FlowPlaces, Sensors, ProcA
<1>9. FlowMail'
  BY <1>1, <1>3, FlowMailKept DEF FlowInv
<1>10. FlowWire'
  BY FlowWireKept DEF FlowInv
<1> QED BY <1>1, <1>8, <1>9, <1>10 DEF FlowInv, FlowNeverFaults

\* Main's other steps touch no process.
LEMMA FlowRests ==
  ASSUME Firm, FlowInv, UNCHANGED <<ready, wire>>,
         TelemetryTick \/ Sample \/ LoopClock \/ UNCHANGED vars
  PROVE  FlowInv'
<1>1. UNCHANGED <<pc, regs, halted, mailbox, count>>
  BY DEF TelemetryTick, LoopTick, Tick, TickRun, TickIdle, Sample, LoopClock, ClockTick,
         vars, vmVars, slotVars
<1>2. runRc' \in {runRc, MB_OK, MB_SCHED_IDLE}
  BY DEF TelemetryTick, LoopTick, Tick, TickRun, TickIdle, Sample, LoopClock, ClockTick,
         vars, vmVars
<1>3. FlowPlaces'
  <2>1. \A q : UNCHANGED <<pc[q], regs[q], halted[q]>>
    BY <1>1
  <2>2. ASSUME NEW i \in Sensors, i <= count PROVE SensorAt(i)'
    BY <2>1, <2>2, PlaceKept DEF FlowInv, FlowPlaces
  <2>3. ASSUME ProcA <= count PROVE ActuatorAt'
    BY <2>1, <2>3, PlaceKept DEF FlowInv, FlowPlaces
  <2> QED BY <1>1, <2>2, <2>3 DEF FlowPlaces, Sensors, ProcA
<1>4. FlowMail'
  BY <1>1, FlowMailKept DEF FlowInv
<1>5. FlowWire'
  BY FlowWireKept DEF FlowInv
<1> QED BY <1>2, <1>3, <1>4, <1>5 DEF FlowInv, FlowNeverFaults

\* Nothing is running at first.
LEMMA FlowBegins ==
  ASSUME NEW devices, WindowsInit(devices)
  PROVE  FlowInv
<1>1. LoopInit /\ wire = [c \in PwmChannel |-> NoSignal]
  BY DEF WindowsInit, BoardInit
<1>2. Init
  BY <1>1 DEF LoopInit
<1>3. FlowPlaces
  <2>1. count = 0 /\ ProcA \in Pids /\ Sensors \subseteq Pids
    BY <1>2, FlowFacts DEF Init
  <2> QED BY <2>1 DEF FlowPlaces, Pids
<1>4. FlowMail
  BY <1>2 DEF Init, FlowMail, Holds, EmptyMailbox
<1>5. FlowWire
  BY <1>1 DEF FlowWire
<1> QED BY <1>2, <1>3, <1>4, <1>5 DEF Init, FlowInv, FlowNeverFaults

\* A flow is a firmware of the kind that the other theorems are about.
LEMMA FlowInvariance ==
  ASSUME NEW devices
  PROVE  FlowLoop(devices) => []Firm /\ []FlowInv
<1>1. FlowLoop(devices) => BoardSpec(devices)
  <2>1. WindowsInit(devices) => BoardInit(devices)
    BY DEF WindowsInit
  <2>2. [FlowLoopNext]_windowsVars => [BoardNext]_boardVars
    BY DEF FlowLoopNext, FlowMain, BoardNext, windowsVars
  <2> QED BY <2>1, <2>2, PTL DEF FlowLoop, BoardSpec
<1>2. BoardSpec(devices) => []Firm
  BY FirmwareInvariance, FirmwareOnInstructions, PTL DEF Firm
<1>3. WindowsInit(devices) => FlowInv
  BY FlowBegins
<1>4. Firm /\ FlowInv /\ [FlowLoopNext]_windowsVars => FlowInv'
  BY FlowRuns, FlowSpawns, FlowRests
     DEF FlowLoopNext, FlowMain, BoardMain, windowsVars, boardVars, loopVars
<1> QED BY <1>1, <1>2, <1>3, <1>4, PTL DEF FlowLoop

\* No process of a compiled flow ever faults: for every flow the compiler
\* accepts, however many sensors it has, its jumps land on instructions, its
\* operands are what the BIFs accept, and SEND's errors only go to a register.
THEOREM FlowsNeverFault ==
  ASSUME NEW devices
  PROVE  FlowLoop(devices) => []FlowNeverFaults
<1>1. FlowInv => FlowNeverFaults
  BY DEF FlowInv
<1> QED BY <1>1, FlowInvariance, PTL

\* What reaches the PWM of a flow is a reading of one of its sensors on a bus
\* that is there, on its channel: an error code is refused on its way by
\* mb_mailbox_push_raw, so it never becomes a duty.
THEOREM FlowsPassReadingsOn ==
  ASSUME NEW devices
  PROVE  FlowLoop(devices) => []OnlyReadingsDriveThePwm
<1>1. ASSUME FlowWire, NEW c \in PwmChannel, wire[c] # NoSignal
      PROVE  /\ c = Channel
             /\ \E i \in Sensors :
                  /\ Connected(i)
                  /\ \E v \in DeviceReads[DeviceOf(i)] \cap PwmPermille :
                       wire[c].pulse * 1000 = wire[c].period * v
  <2>1. PICK v \in GoodReadings : wire[c] = Signal(v)
    BY <1>1 DEF FlowWire
  <2>2. v \in PwmPermille
    BY DEF GoodReadings
  <2>3. PICK i \in Sensors : Connected(i) /\ v \in DeviceReads[DeviceOf(i)]
    BY DEF GoodReadings
  <2>4. wire[c].pulse * 1000 = wire[c].period * v
    <3>1. (20000 * v) \div 1000 = 20 * v
      BY <2>2 DEF PwmPermille
    <3> QED BY <2>1, <2>2, <3>1 DEF Signal, PwmPermille
  <2> QED BY <1>1, <2>2, <2>3, <2>4 DEF FlowWire
<1>2. FlowInv => OnlyReadingsDriveThePwm
  BY <1>1 DEF FlowInv, OnlyReadingsDriveThePwm
<1> QED BY <1>2, FlowInvariance, PTL

-----------------------------------------------------------------------------
(* The events of a flow.                                                   *)

\* The timestamp is never ahead of the clock nor behind the last one main has
\* seen, and main has missed at most one change of it: a sensor looks at the
\* clock once between two of its rests, and rests end its turn.
StampInv ==
  /\ clock <= MaxClock
  /\ events \in Nat /\ stamps \in Nat /\ lastTs \in Nat
  /\ Ts \in Nat /\ Ts <= clock /\ lastTs <= Ts
  /\ count = 0 => Ts = 0
  /\ due \in {"tick", "sample"}
  /\ running # 0 => due = "sample"
  /\ stamps = events + (IF lastTs = Ts THEN 0 ELSE 1)
  /\ due = "tick" => lastTs = Ts
  /\ running = ProcS /\ pc[ProcS] \notin {59, 66} => lastTs = Ts

\* What else the flow's invariants tell of the first sensor.
LEMMA FirstFacts ==
  ASSUME Firm
  PROVE  /\ ProcS \in Pids /\ ProcS \in Sensors /\ ProcS = 1 /\ 9 \in Regs
         /\ clock \in Nat /\ count \in Nat
         /\ pc \in [Pids -> Nat] /\ regs \in [Pids -> [Regs -> Term]]
  BY FlowFacts DEF Firm, IInv, TypeOK, Regs

\* A step of the first sensor's.
LEMMA FirstKeepsStamps ==
  ASSUME Firm, FlowInv, StampInv, StampsDiffer, BoardRun, DevicesAnswer, Watch,
         running = ProcS
  PROVE  StampInv'
<1>1. /\ ProcS \in Pids /\ ProcS \in Sensors /\ ProcS # 0 /\ clock \in Nat /\ count \in Nat
  BY FirstFacts
<1>2. PICK p \in Pids :
        /\ Step(p) /\ UNCHANGED count
        /\ Calls(p, MB_BIF_I2C_READ_REG) => Returned(p) \in i2c_read_reg(RegInt(p, 3))
  BY DEF BoardRun, Run, Answered
<1>3. p = ProcS /\ MachineOK /\ program[p] = Boot[p] /\ p <= count
  BY <1>2, MachineSound, StepEnds, RunsAFlow DEF Firm
<1>4. UNCHANGED <<ready, due, events, lastTs>>
  BY DEF BoardRun, telemetryVars, reportVars
<1>5. SensorMoves(ProcS)
  BY <1>1, <1>2, <1>3, <1>4, SensorRuns DEF FlowInv, FlowPlaces
<1>6. /\ UNCHANGED clock /\ count' = count /\ count # 0 /\ running' \in {0, ProcS}
      /\ due = "sample"
  <2>1. UNCHANGED clock /\ running' \in {0, running}
    BY <1>2, StepEnds DEF Firm, Faulted, FaultWith, Counted, CountReduction, Left, LeaveReady
  <2>2. count # 0
    BY <1>1, <1>3 DEF ProcS
  <2> QED BY <1>1, <1>2, <2>1, <2>2 DEF StampInv
<1>7. stamps' = IF Ts' # Ts /\ Ts' # 0 THEN stamps + 1 ELSE stamps
  BY <1>4, <1>6 DEF Watch, Reports
<1>8. CASE pc[ProcS] = 55
  <2>1. Ts' = clock
    <3>1. clock < ClockMod /\ clock \in (-PayloadHalf)..(PayloadHalf - 1)
      BY <1>1 DEF StampInv, StampsDiffer
    <3>2. Now = clock
      BY <1>1, <3>1 DEF Now, VmAssumption
    <3>3. regs'[ProcS][9] = MAKE_SMALLINT(clock)
      BY <1>5, <1>8, <3>2 DEF SensorMoves
    <3> QED BY <3>1, <3>3, PayloadKeeps DEF Ts, ProcS
  <2>2. pc'[ProcS] = 59
    BY <1>5, <1>8 DEF SensorMoves
  <2>3. lastTs = Ts
    BY <1>8 DEF StampInv
  <2> QED BY <1>1, <1>4, <1>6, <1>7, <2>1, <2>2, <2>3 DEF StampInv, ProcS
<1>9. CASE pc[ProcS] # 55
  <2>1. Ts' = Ts
    BY <1>5, <1>9 DEF SensorMoves, Ts, ProcS
  <2>2. running' = ProcS /\ pc'[ProcS] \notin {59, 66} => lastTs = Ts
    <3>1. pc[ProcS] = 59 => pc'[ProcS] = 66
      BY <1>5 DEF SensorMoves
    <3>2. pc[ProcS] = 66 => running' = 0
      BY <1>5 DEF SensorMoves
    <3> QED BY <1>1, <3>1, <3>2 DEF StampInv
  <2> QED BY <1>1, <1>4, <1>6, <1>7, <2>1, <2>2 DEF StampInv, ProcS
<1> QED BY <1>8, <1>9

\* A step of another process.
LEMMA OthersKeepStamps ==
  ASSUME Firm, StampInv, BoardRun, Watch, running # ProcS
  PROVE  StampInv'
<1>1. ProcS \in Pids /\ ProcS # 0
  BY FirstFacts
<1>2. PICK p \in Pids : Step(p) /\ UNCHANGED count
  BY DEF BoardRun, Run
<1>3. p = running /\ p # ProcS /\ p # 0
  BY <1>2, StepEnds DEF Firm, Pids
<1>4. UNCHANGED <<due, events, lastTs>>
  BY DEF BoardRun, telemetryVars, reportVars
<1>5. UNCHANGED clock /\ running' \in {0, p}
  BY <1>2, <1>3, StepEnds
     DEF Firm, Faulted, FaultWith, Counted, CountReduction, Left, LeaveReady
<1>6. Ts' = Ts
  <2>1. UNCHANGED regs[ProcS]
    BY <1>1, <1>2, <1>3, StepKeepsOthers DEF Firm
  <2> QED BY <2>1 DEF Ts, ProcS
<1>7. stamps' = stamps /\ due = "sample"
  BY <1>3, <1>4 DEF Watch, Reports, StampInv
<1>8. running' # ProcS
  BY <1>1, <1>3, <1>5
<1> QED BY <1>2, <1>4, <1>5, <1>6, <1>7, <1>8 DEF StampInv, ProcS

\* Main counts the event that it has not seen, or reports and counts anew.
LEMMA SampleKeepsStamps ==
  ASSUME Firm, StampInv, Sample, Watch
  PROVE  StampInv'
<1>1. ProcS # 0
  BY FirstFacts
<1>2. UNCHANGED vars /\ running = 0 /\ due = "sample" /\ due' = "tick"
  BY DEF Sample
<1>3. UNCHANGED <<clock, count, running>> /\ Ts' = Ts
  BY <1>2 DEF vars, vmVars, slotVars, Ts, ProcS
<1>4. NewEvent <=> Ts # lastTs
  BY DEF StampInv, NewEvent
<1>5. lastTs' = Ts
  BY <1>4 DEF Sample
<1>6. CASE SummaryDue
  <2>1. events' = 0 /\ stamps' = 0
    BY <1>2, <1>6 DEF Sample, Watch, Reports
  <2> QED BY <1>1, <1>2, <1>3, <1>5, <2>1 DEF StampInv, ProcS
<1>7. CASE ~SummaryDue
  <2>1. events' = events + (IF NewEvent THEN 1 ELSE 0)
    BY <1>7 DEF Sample
  <2>2. stamps' = stamps
    BY <1>1, <1>2, <1>7 DEF Watch, Reports
  <2>3. events' \in Nat /\ stamps' \in Nat
    BY <2>1, <2>2 DEF StampInv
  <2>4. stamps' = events' + (IF lastTs' = Ts' THEN 0 ELSE 1) /\ lastTs' = Ts'
    <3>1. lastTs' = Ts'
      BY <1>3, <1>5
    <3>2. CASE Ts = lastTs
      BY <1>4, <2>1, <2>2, <3>1, <3>2 DEF StampInv
    <3>3. CASE Ts # lastTs
      BY <1>4, <2>1, <2>2, <3>1, <3>3 DEF StampInv
    <3> QED BY <3>2, <3>3
  <2>5. running' = 0 /\ due' = "tick"
    BY <1>2, <1>3
  <2>6. /\ clock' <= MaxClock /\ Ts' \in Nat /\ Ts' <= clock' /\ lastTs' <= Ts'
        /\ count' = 0 => Ts' = 0
    BY <1>3, <1>5 DEF StampInv
  <2> QED BY <1>1, <2>3, <2>4, <2>5, <2>6 DEF StampInv, ProcS
<1> QED BY <1>6, <1>7

\* The first process is spawned before it has looked at the clock.
LEMMA SpawnKeepsStamps ==
  ASSUME Firm, StampInv, LoopSpawn, Watch
  PROVE  StampInv'
<1>1. ProcS \in Pids /\ ProcS = 1 /\ 9 \in Regs /\ count \in Nat
      /\ regs \in [Pids -> [Regs -> Term]]
  BY FirstFacts
<1>2. /\ regs' = [regs EXCEPT ![count + 1] = [r \in Regs |-> ZeroTerm]]
      /\ UNCHANGED <<due, events, lastTs, clock, running>> /\ running = 0
      /\ count' = count + 1
  BY SpawnTakesNext DEF Firm, LoopSpawn, SpawnNext, Spawn, ProcInit, telemetryVars, reportVars
<1>3. Ts' = Ts
  <2>1. CASE count = 0
    <3>1. regs'[ProcS][9] = ZeroTerm
      BY <1>1, <1>2, <2>1
    <3>2. GET_SMALLINT(ZeroTerm) = 0
      BY DEF ZeroTerm, GET_SMALLINT
    <3>3. Ts = 0
      BY <2>1 DEF StampInv
    <3> QED BY <3>1, <3>2, <3>3 DEF Ts, ProcS
  <2>2. CASE count # 0
    <3>1. regs'[ProcS] = regs[ProcS]
      BY <1>1, <1>2, <2>2
    <3> QED BY <3>1 DEF Ts, ProcS
  <2> QED BY <2>1, <2>2
<1>4. stamps' = stamps
  BY <1>1, <1>2 DEF Watch, Reports
<1> QED BY <1>1, <1>2, <1>3, <1>4 DEF StampInv, ProcS

\* A tick and the clock.
LEMMA QuietKeepsStamps ==
  ASSUME Firm, StampInv,
         \/ TelemetryTick /\ Watch
         \/ LoopClock /\ UNCHANGED histVars
         \/ UNCHANGED windowsVars
  PROVE  StampInv'
<1>1. ProcS # 0 /\ clock \in Nat
  BY FirstFacts
<1>2. UNCHANGED <<regs, pc, count, events, lastTs>>
  BY DEF TelemetryTick, LoopTick, Tick, TickRun, TickIdle, LoopClock, ClockTick,
         windowsVars, boardVars, loopVars, telemetryVars, reportVars, vars, vmVars, slotVars
<1>3. Ts' = Ts
  BY <1>2 DEF Ts, ProcS
<1>4. CASE TelemetryTick /\ Watch
  <2>1. due = "tick" /\ due' = "sample" /\ running = 0 /\ UNCHANGED clock
    BY <1>4 DEF TelemetryTick, LoopTick, Tick, TickRun, TickIdle
  <2>2. stamps' = stamps
    BY <1>1, <1>4, <2>1 DEF Watch, Reports
  <2> QED BY <1>1, <1>2, <1>3, <2>1, <2>2 DEF StampInv, ProcS
<1>5. CASE \/ LoopClock /\ UNCHANGED histVars
           \/ UNCHANGED windowsVars
  <2>1. UNCHANGED <<due, running, stamps>>
    BY <1>5 DEF LoopClock, ClockTick, telemetryVars, histVars, windowsVars, boardVars,
                loopVars, vars, vmVars
  <2>2. clock' \in Nat /\ clock <= clock' /\ clock' <= MaxClock
    BY <1>1, <1>5 DEF StampInv, LoopClock, ClockTick, windowsVars, boardVars, loopVars,
                vars, vmVars, SchedulerAssumption
  <2> QED BY <1>1, <1>2, <1>3, <2>1, <2>2 DEF StampInv, ProcS
<1> QED BY <1>4, <1>5

\* The telemetry's event count is what it claims to be: for every flow, each
\* poll of the first sensor in a new millisecond is counted once, in its
\* window, as long as neither the clock nor the register's payload wraps.
THEOREM FlowsCountEvents ==
  ASSUME NEW devices, StampsDiffer
  PROVE  FlowLoop(devices) => []EventsAreNewStamps
<1>1. WindowsInit(devices) => StampInv
  <2>1. SUFFICES ASSUME WindowsInit(devices) PROVE StampInv
    OBVIOUS
  <2>2. /\ Init /\ due = "tick" /\ events = 0 /\ lastTs = 0 /\ stamps = 0
    BY <2>1 DEF WindowsInit, BoardInit, LoopInit, HistInit
  <2>3. ProcS \in Pids /\ ProcS # 0 /\ 9 \in Regs
    BY FlowFacts DEF Pids, Regs
  <2>4. Ts = 0
    BY <2>2, <2>3 DEF Init, Ts, ZeroTerm, GET_SMALLINT
  <2>5. clock = 0 /\ running = 0 /\ count = 0 /\ 0 <= MaxClock
    BY <2>2 DEF Init, SchedulerAssumption
  <2> QED BY <2>2, <2>3, <2>4, <2>5 DEF StampInv
<1>2. Firm /\ FlowInv /\ StampInv /\ [FlowLoopNext]_windowsVars => StampInv'
  <2>1. SUFFICES ASSUME Firm, FlowInv, StampInv, [FlowLoopNext]_windowsVars
                 PROVE  StampInv'
    OBVIOUS
  <2>2. CASE BoardRun /\ DevicesAnswer /\ Watch
    BY <2>1, <2>2, FirstKeepsStamps, OthersKeepStamps
  <2>3. CASE LoopSpawn /\ Watch
    BY <2>1, <2>3, SpawnKeepsStamps
  <2>4. CASE Sample /\ Watch
    BY <2>1, <2>4, SampleKeepsStamps
  <2>5. CASE \/ TelemetryTick /\ Watch
             \/ LoopClock /\ UNCHANGED histVars
             \/ UNCHANGED windowsVars
    BY <2>1, <2>5, QuietKeepsStamps
  <2> QED BY <2>1, <2>2, <2>3, <2>4, <2>5 DEF FlowLoopNext, FlowMain, BoardMain, histVars
<1>3. StampInv => EventsAreNewStamps
  BY DEF StampInv, EventsAreNewStamps
<1> QED BY <1>1, <1>2, <1>3, FlowInvariance, PTL DEF FlowLoop
=============================================================================
